---- MODULE Spec2Model ----
(***************************************************************************)
(* Model of the validation layer of claude-code-action:                    *)
(*   - the actor authorizer (checkAllowedActor, checkWritePermissions),    *)
(*   - the provider-mention detector (detectAIProvider),                   *)
(*   - the trigger detector (checkContainsTrigger, escapeRegExp).          *)
(* Texts are sequences of one-character strings, so that the regular       *)
(* expressions of the source are matched character by character.           *)
(***************************************************************************)
EXTENDS Integers, Sequences, FiniteSets, TLC

\* ------------------------------------------------------------------ bounds
\* longest allowedBotNames array
MaxBots == 2
\* number of fragments a text handed to detectAIProvider is built from
MaxFrags == 3
\* number of fragments the body of an event payload is built from
MaxBodyFrags == 2

VARIABLES
    actor,             \* githubContext.actor
    accountType,       \* what users.getByUsername answers for the actor
    allowedBotNames,   \* githubContext.inputs.allowedBotNames
    permission,        \* what repos.getCollaboratorPermissionLevel answers
    allowedActor,      \* outcome of checkAllowedActor
    writePermission,   \* outcome of checkWritePermissions
    apiCalls,          \* GitHub REST calls made so far, in order
    authThrown,        \* message of the error a gate threw, in parts
    text,              \* argument of detectAIProvider
    provider,          \* result of detectAIProvider
    context,           \* ParsedGitHubContext handed to checkContainsTrigger
    triggerResult,     \* result of checkContainsTrigger
    triggerAction,     \* what checkTriggerAction returned and wrote as outputs
    env,               \* process.env of the dispatcher
    promptFileExists,  \* existsSync(process.env.PROMPT_FILE)
    outputFile,        \* content of <RUNNER_TEMP>/ai-execution-output.json
    pc,                \* where the dispatcher's run() stands
    config,            \* the CliToolConfig run() resolved
    thrown,            \* message of the error on its way to the catch block
    spawned,           \* the spawnSync calls made so far, in order
    conclusion,        \* conclusion returned by executeCliTool
    outputs,           \* the core.setOutput calls of run(), in order
    failures,          \* the core.setFailed messages of run(), in order
    exitCode,          \* process.exitCode, the exit status once pc = "exited"
    variant,           \* which entrypoint runs: "augment" or "hud"
    entryEnv,          \* process.env of the entrypoint
    entryPc,           \* where the entrypoint's run() stands
    entryThrown,       \* message of the error on its way to the outer catch
    entrySpawned,      \* the execAsync calls made so far, in order
    nodeResult,        \* what "node --version" gave
    sessionResult,     \* how the session setup ended
    cliResult,         \* what the CLI execution gave
    commentUpdates,    \* the updateClaudeComment calls made so far, in order
    entryExit,         \* exit status of the entrypoint once entryPc = "exited"
    entryLog,          \* the console lines about the CLI command, in order
    branchInput,       \* arguments and surroundings of checkAndDeleteEmptyBranch
    branchPc,          \* "start" before the call, "returned" after it
    branchCalls,       \* the API calls checkAndDeleteEmptyBranch made, in order
    branchResult,      \* what checkAndDeleteEmptyBranch gave
    escString,         \* argument of escapeRegExp
    escText,           \* text the expression built from the result is tested on
    escPc,             \* "start" before the call, "done" after it
    escResult,         \* result of escapeRegExp
    escMatched         \* whether new RegExp(result) matches the text

authVars == <<actor, accountType, allowedBotNames, permission, allowedActor,
              writePermission, apiCalls, authThrown>>
detectVars == <<text, provider>>
triggerVars == <<context, triggerResult, triggerAction>>
dispatchVars == <<env, promptFileExists, outputFile, pc, config, thrown, spawned,
                  conclusion, outputs, failures, exitCode>>
entryVars == <<variant, entryEnv, entryPc, entryThrown, entrySpawned, nodeResult,
               sessionResult, cliResult, commentUpdates, entryExit, entryLog>>
branchVars == <<branchInput, branchPc, branchCalls, branchResult>>
escapeVars == <<escString, escText, escPc, escResult, escMatched>>
toolVars == <<dispatchVars, entryVars, branchVars, escapeVars>>
vars == <<authVars, detectVars, triggerVars, toolVars>>

\* a value standing for null / undefined / not yet computed
Null == "null"
Pending == "pending"
\* a rejected promise of an Octokit call
ApiFailure == "ApiFailure"

\* the error a rejected Octokit call carries
ApiError == [name |-> "HttpError", message |-> "API error"]
\* `${error}` on an error
String(error) == error.name \o ": " \o error.message

\* array.join(separator)
RECURSIVE Join(_, _)
Join(strings, separator) ==
    IF strings = <<>> THEN ""
    ELSE IF Len(strings) = 1 THEN strings[1]
    ELSE strings[1] \o separator \o Join(Tail(strings), separator)

\* ------------------------------------------------------- actor authorizer
Logins == {"alice", "dependabot[bot]", "Dependabot[bot]", "acme"}
AccountTypes == {"User", "Bot", "Organization"}
Permissions == {"admin", "write", "maintain", "triage", "read", "none"}
BotLists == UNION {[1..n -> Logins] : n \in 0..MaxBots}

\* Array.prototype.includes on an array of strings: strict equality
includes(list, x) == \E i \in 1..Len(list) : list[i] = x

getByUsername(username) == [api |-> "users.getByUsername", username |-> username]
getCollaboratorPermissionLevel(username) ==
    [api |-> "repos.getCollaboratorPermissionLevel", username |-> username]

\* checkAllowedActor that takes a failed user lookup for a human
checkAllowedActor_SwallowLookup(login, type, bots) ==
    IF type = ApiFailure \/ type = "User" THEN "ok"
    ELSE IF type = "Bot" /\ Len(bots) > 0 /\ includes(bots, login) THEN "ok"
    ELSE "unauthorized"

checkAllowedActor_IgnoreType(login, type, bots) ==
    IF type = ApiFailure THEN "error"
    ELSE IF type = "User" THEN "ok"
    ELSE IF Len(bots) > 0 /\ includes(bots, login) THEN "ok"
    ELSE "unauthorized"

\* "ok" when the function returns, "unauthorized" when it throws its own
\* error, "error" when the user lookup rejects
checkAllowedActor(login, type, bots) ==
    IF type = ApiFailure THEN "error"
    ELSE IF type = "User" THEN "ok"
    ELSE IF type = "Bot" /\ Len(bots) > 0 /\ includes(bots, login) THEN "ok"
    ELSE "unauthorized"

\* the message of a rejection that always lists the bots
unauthorizedMessage_AlwaysList(login, type, bots) ==
    <<"Workflow initiated by unauthorized actor: ", login, " (type: ", type, "). ",
      "Only human users and whitelisted bots are allowed.",
      " Allowed bots: ", Join(bots, ", ")>>

\* the message of the error checkAllowedActor throws itself, in parts
unauthorizedMessage(login, type, bots) ==
    <<"Workflow initiated by unauthorized actor: ", login, " (type: ", type, "). ",
      "Only human users and whitelisted bots are allowed.">>
    \o (IF Len(bots) > 0 THEN <<" Allowed bots: ", Join(bots, ", ")>> ELSE <<>>)

\* the message of the error that leaves checkAllowedActor: the error of the
\* lookup as it is, or the rejection; <<>> when it returns
allowedActorError(login, type, bots) ==
    LET outcome == checkAllowedActor(login, type, bots)
    IN IF outcome = "error" THEN <<ApiError.message>>
       ELSE IF outcome = "unauthorized" THEN unauthorizedMessage(login, type, bots)
       ELSE <<>>

\* checkWritePermissions that answers false when the lookup fails
checkWritePermissions_SwallowToFalse(login, bots, perm) ==
    IF includes(bots, login) THEN [value |-> "true", calls |-> <<>>]
    ELSE [value |-> IF perm = "admin" \/ perm = "write" THEN "true" ELSE "false",
          calls |-> <<getCollaboratorPermissionLevel(login)>>]

checkWritePermissions_Maintain(login, bots, perm) ==
    IF includes(bots, login) THEN [value |-> "true", calls |-> <<>>]
    ELSE [value |-> IF perm = ApiFailure THEN "error"
                    ELSE IF perm \in {"admin", "write", "maintain"} THEN "true"
                    ELSE "false",
          calls |-> <<getCollaboratorPermissionLevel(login)>>]

checkWritePermissions_AlwaysAsk(login, bots, perm) ==
    [value |-> IF perm = ApiFailure THEN "error"
               ELSE IF includes(bots, login) \/ perm \in {"admin", "write"}
                    THEN "true"
               ELSE "false",
     calls |-> <<getCollaboratorPermissionLevel(login)>>]

\* value: "true" / "false" as returned, "error" when it throws;
\* calls: the REST calls the invocation makes
checkWritePermissions(login, bots, perm) ==
    IF includes(bots, login) THEN [value |-> "true", calls |-> <<>>]
    ELSE [value |-> IF perm = ApiFailure THEN "error"
                    ELSE IF perm = "admin" \/ perm = "write" THEN "true"
                    ELSE "false",
          calls |-> <<getCollaboratorPermissionLevel(login)>>]

\* the message of the error that leaves checkWritePermissions; <<>> when it
\* returns
writePermissionError(login, bots, perm) ==
    IF checkWritePermissions(login, bots, perm).value = "error"
    THEN <<"Failed to check permissions for ", login, ": ", String(ApiError)>>
    ELSE <<>>

\* an exception of either gate ends the run
AuthHalted == allowedActor \in {"unauthorized", "error"} \/ writePermission = "error"

CheckAllowedActor ==
    /\ allowedActor = Pending
    /\ ~AuthHalted
    /\ allowedActor' = checkAllowedActor(actor, accountType, allowedBotNames)
    /\ authThrown' = allowedActorError(actor, accountType, allowedBotNames)
    /\ apiCalls' = Append(apiCalls, getByUsername(actor))
    /\ UNCHANGED <<actor, accountType, allowedBotNames, permission, writePermission>>
    /\ UNCHANGED <<detectVars, triggerVars, toolVars>>

CheckWritePermissions ==
    /\ writePermission = Pending
    /\ ~AuthHalted
    /\ LET r == checkWritePermissions(actor, allowedBotNames, permission)
       IN /\ writePermission' = r.value
          /\ apiCalls' = apiCalls \o r.calls
    /\ authThrown' = writePermissionError(actor, allowedBotNames, permission)
    /\ UNCHANGED <<actor, accountType, allowedBotNames, permission, allowedActor>>
    /\ UNCHANGED <<detectVars, triggerVars, toolVars>>

\* ------------------------------------------------- regular expressions
\* JavaScript's \s, as far as the characters of the model go
WhiteSpace == {" ", "\t", "\n", "\r", "\f"}
\* the characters "." does not match (no s flag)
LineTerminators == {"\n", "\r"}
\* the punctuation of the class [\s.,!?;:]
Punctuation == {".", ",", "!", "?", ";", ":"}

\* One element of a compiled pattern. "char" matches ch, "any" is the dot,
\* "startOrSpace" is the group (^|\s), "delimOrEnd" the group ([\s.,!?;:]|$).
Atom(kind, ch) == [kind |-> kind, ch |-> ch]
StartOrSpace == Atom("startOrSpace", "")
DelimOrEnd == Atom("delimOrEnd", "")
Literal(s) == [i \in 1..Len(s) |-> Atom("char", s[i])]

\* the atoms from index j on match s after its first pos characters
RECURSIVE matchFrom(_, _, _, _)
matchFrom(atoms, j, s, pos) ==
    IF j > Len(atoms) THEN TRUE
    ELSE LET a == atoms[j]
             more == pos < Len(s)
         IN CASE a.kind = "startOrSpace" ->
                    \/ pos = 0 /\ matchFrom(atoms, j + 1, s, pos)
                    \/ more /\ s[pos + 1] \in WhiteSpace
                            /\ matchFrom(atoms, j + 1, s, pos + 1)
              [] a.kind = "delimOrEnd" ->
                    \/ more /\ s[pos + 1] \in WhiteSpace \cup Punctuation
                            /\ matchFrom(atoms, j + 1, s, pos + 1)
                    \/ pos = Len(s) /\ matchFrom(atoms, j + 1, s, pos)
              [] a.kind = "start" -> pos = 0 /\ matchFrom(atoms, j + 1, s, pos)
              [] a.kind = "end" -> pos = Len(s) /\ matchFrom(atoms, j + 1, s, pos)
              [] a.kind = "any" ->
                    more /\ s[pos + 1] \notin LineTerminators
                         /\ matchFrom(atoms, j + 1, s, pos + 1)
              [] OTHER ->
                    more /\ s[pos + 1] = a.ch
                         /\ matchFrom(atoms, j + 1, s, pos + 1)

\* RegExp.prototype.test without the g flag: a match starting anywhere
test(atoms, s) == \E pos \in 0..Len(s) : matchFrom(atoms, 1, s, pos)

\* ------------------------------------------------------ detectAIProvider
AtClaude == <<"@", "c", "l", "a", "u", "d", "e">>
AtAugment == <<"@", "a", "u", "g", "m", "e", "n", "t">>

augmentRegex == <<StartOrSpace>> \o Literal(AtAugment) \o <<DelimOrEnd>>

claudeRegex_NoLeftBoundary == Literal(AtClaude) \o <<DelimOrEnd>>

claudeRegex == <<StartOrSpace>> \o Literal(AtClaude) \o <<DelimOrEnd>>

detectAIProvider_ClaudeFirst(t) ==
    IF test(claudeRegex, t) THEN "claude"
    ELSE IF test(augmentRegex, t) THEN "augment"
    ELSE Null

detectAIProvider(t) ==
    IF test(augmentRegex, t) THEN "augment"
    ELSE IF test(claudeRegex, t) THEN "claude"
    ELSE Null

\* texts: up to n fragments of a set, concatenated
RECURSIVE Concatenations(_, _)
Concatenations(frags, n) ==
    IF n = 0 THEN {<<>>}
    ELSE LET shorter == Concatenations(frags, n - 1)
         IN shorter \cup {t \o f : t \in shorter, f \in frags}

DetectFragments ==
    {AtClaude, AtAugment, <<"@", "C", "l", "a", "u", "d", "e">>,
     <<" ">>, <<"\n">>, <<".">>, <<",">>, <<"!">>, <<"?">>, <<";">>, <<":">>,
     <<"x">>, <<"-">>}
DetectTexts == Concatenations(DetectFragments, MaxFrags)

DetectAIProvider ==
    /\ provider = Pending
    /\ provider' = detectAIProvider(text)
    /\ UNCHANGED <<text, authVars, triggerVars, toolVars>>

\* -------------------------------------------------- checkContainsTrigger
\* a payload field that is null or missing
Undefined == <<"undefined">>

\* x || "" on a string or null
orEmpty(x) == IF x = Undefined THEN <<>> ELSE x

\* truthiness of a string: every string but the empty one
truthy(str) == str # <<>>

SpecialCharacters ==
    {".", "*", "+", "?", "^", "$", "{", "}", "(", ")", "|", "[", "]", "\\"}

escapeRegExp_Identity(str) == str

\* escapeRegExp with a class that misses the dollar sign
RECURSIVE escapeRegExp_NoDollar(_)
escapeRegExp_NoDollar(str) ==
    IF str = <<>> THEN <<>>
    ELSE (IF Head(str) \in SpecialCharacters \ {"$"} THEN <<"\\", Head(str)>>
          ELSE <<Head(str)>>) \o escapeRegExp_NoDollar(Tail(str))

\* string.replace(/[.*+?^${}()|[\]\\]/g, "\\$&")
RECURSIVE escapeRegExp(_)
escapeRegExp(str) ==
    IF str = <<>> THEN <<>>
    ELSE (IF Head(str) \in SpecialCharacters THEN <<"\\", Head(str)>>
          ELSE <<Head(str)>>) \o escapeRegExp(Tail(str))

\* The part of a pattern source the trigger phrase contributes, compiled: a
\* backslash makes the next character literal, an unescaped dot matches any
\* character, an unescaped ^ or $ the start or the end of the text, every
\* other character of the model matches itself.
RECURSIVE compile(_)
compile(source) ==
    IF source = <<>> THEN <<>>
    ELSE IF Head(source) = "\\" /\ Len(source) >= 2
         THEN <<Atom("char", source[2])>> \o compile(SubSeq(source, 3, Len(source)))
    ELSE IF Head(source) = "."
         THEN <<Atom("any", "")>> \o compile(Tail(source))
    ELSE IF Head(source) = "^"
         THEN <<Atom("start", "")>> \o compile(Tail(source))
    ELSE IF Head(source) = "$"
         THEN <<Atom("end", "")>> \o compile(Tail(source))
    ELSE <<Atom("char", Head(source))>> \o compile(Tail(source))

\* new RegExp(`(^|\\s)${escapeRegExp(triggerPhrase)}([\\s.,!?;:]|$)`)
triggerRegex(triggerPhrase) ==
    <<StartOrSpace>> \o compile(escapeRegExp(triggerPhrase)) \o <<DelimOrEnd>>

stripLeadingAt_Never(str) == str

\* assigneeTrigger.replace(/^@/, "")
stripLeadingAt(str) ==
    IF str # <<>> /\ Head(str) = "@" THEN Tail(str) ELSE str

\* the type guards of ../context
isIssuesEvent(ctx) == ctx.eventName = "issues"
isIssuesAssignedEvent(ctx) == isIssuesEvent(ctx) /\ ctx.eventAction = "assigned"
isIssueCommentEvent(ctx) == ctx.eventName = "issue_comment"
isPullRequestEvent(ctx) == ctx.eventName = "pull_request"
isPullRequestReviewEvent(ctx) == ctx.eventName = "pull_request_review"
isPullRequestReviewCommentEvent(ctx) == ctx.eventName = "pull_request_review_comment"

Triggered(aiProvider) == [containsTrigger |-> TRUE, aiProvider |-> aiProvider]
NotTriggered == [containsTrigger |-> FALSE, aiProvider |-> Null]
NoResult == [containsTrigger |-> FALSE, aiProvider |-> Pending]

\* the assignee check of an issue-assignment event
assigneeTriggered(ctx) ==
    LET triggerUser == stripLeadingAt(ctx.inputs.assigneeTrigger)
        assigneeUsername == orEmpty(ctx.payload.assignee)
    IN truthy(triggerUser) /\ assigneeUsername = triggerUser

\* the trigger phrase scanned before the provider mentions
scanBodyAndTitle_PhraseFirst(body, title, triggerPhrase) ==
    LET inBody == detectAIProvider(body)
        aiProvider == IF inBody = Null THEN detectAIProvider(title) ELSE inBody
        regex == triggerRegex(triggerPhrase)
    IN IF test(regex, body) THEN Triggered("claude")
       ELSE IF test(regex, title) THEN Triggered("claude")
       ELSE IF aiProvider # Null THEN Triggered(aiProvider)
       ELSE NotTriggered

scanBodyAndTitle_TitleFirst(body, title, triggerPhrase) ==
    LET inTitle == detectAIProvider(title)
        aiProvider == IF inTitle = Null THEN detectAIProvider(body) ELSE inTitle
        regex == triggerRegex(triggerPhrase)
    IN IF aiProvider # Null THEN Triggered(aiProvider)
       ELSE IF test(regex, body) THEN Triggered("claude")
       ELSE IF test(regex, title) THEN Triggered("claude")
       ELSE NotTriggered

\* provider mention in the body, else in the title, else the trigger phrase
\* in the body, else in the title (issue opened, pull request)
scanBodyAndTitle(body, title, triggerPhrase) ==
    LET inBody == detectAIProvider(body)
        aiProvider == IF inBody = Null THEN detectAIProvider(title) ELSE inBody
        regex == triggerRegex(triggerPhrase)
    IN IF aiProvider # Null THEN Triggered(aiProvider)
       ELSE IF test(regex, body) THEN Triggered("claude")
       ELSE IF test(regex, title) THEN Triggered("claude")
       ELSE NotTriggered

\* provider mention, else the trigger phrase (review body, comment body)
scanBody(body, triggerPhrase) ==
    LET aiProvider == detectAIProvider(body)
    IN IF aiProvider # Null THEN Triggered(aiProvider)
       ELSE IF test(triggerRegex(triggerPhrase), body) THEN Triggered("claude")
       ELSE NotTriggered

issueOpenedBranch(ctx) == isIssuesEvent(ctx) /\ ctx.eventAction = "opened"

reviewBranch_AnyAction(ctx) == isPullRequestReviewEvent(ctx)

reviewBranch(ctx) ==
    /\ isPullRequestReviewEvent(ctx)
    /\ (ctx.eventAction = "submitted" \/ ctx.eventAction = "edited")

commentBranch(ctx) == isIssueCommentEvent(ctx) \/ isPullRequestReviewCommentEvent(ctx)

\* the function below the direct-prompt check: every if block returns when
\* it finds a trigger and falls through to the next one when it does not
afterDirectPrompt(ctx) ==
    LET triggerPhrase == ctx.inputs.triggerPhrase
        issue == IF issueOpenedBranch(ctx)
                 THEN scanBodyAndTitle(orEmpty(ctx.payload.body),
                                       orEmpty(ctx.payload.title), triggerPhrase)
                 ELSE NotTriggered
        pr == IF isPullRequestEvent(ctx)
              THEN scanBodyAndTitle(orEmpty(ctx.payload.body),
                                    orEmpty(ctx.payload.title), triggerPhrase)
              ELSE NotTriggered
        review == IF reviewBranch(ctx)
                  THEN scanBody(orEmpty(ctx.payload.body), triggerPhrase)
                  ELSE NotTriggered
        comment == IF commentBranch(ctx)
                   THEN scanBody(ctx.payload.body, triggerPhrase)
                   ELSE NotTriggered
    IN IF isIssuesAssignedEvent(ctx) /\ assigneeTriggered(ctx) THEN Triggered("claude")
       ELSE IF issue.containsTrigger THEN issue
       ELSE IF pr.containsTrigger THEN pr
       ELSE IF review.containsTrigger THEN review
       ELSE IF comment.containsTrigger THEN comment
       ELSE NotTriggered

checkContainsTrigger_PromptLast(ctx) ==
    LET r == afterDirectPrompt(ctx)
    IN IF r.containsTrigger THEN r
       ELSE IF truthy(ctx.inputs.directPrompt) THEN Triggered("claude")
       ELSE NotTriggered

checkContainsTrigger(ctx) ==
    IF truthy(ctx.inputs.directPrompt) THEN Triggered("claude")
    ELSE afterDirectPrompt(ctx)

\* the events of the model: (eventName, eventAction)
Events ==
    {<<"issues", "opened">>, <<"issues", "edited">>, <<"issues", "assigned">>,
     <<"pull_request", "opened">>, <<"pull_request", "synchronize">>,
     <<"pull_request_review", "submitted">>, <<"pull_request_review", "edited">>,
     <<"pull_request_review", "dismissed">>,
     <<"issue_comment", "created">>,
     <<"pull_request_review_comment", "created">>,
     <<"push", "created">>}

TriggerPhrases == {<<>>, <<"c", ".">>, AtClaude}
DirectPrompts == {<<>>, <<"x">>}
AssigneeTriggers == {<<>>, <<"a">>, <<"@", "a">>, <<"@", "@", "a">>}
AssigneeLogins == {<<"a">>, <<"b">>, <<"@", "a">>}
BodyFragments ==
    {<<"c", ".">>, <<"c", "x">>, <<" ">>, <<"\n">>, <<",">>, <<"x">>,
     AtClaude, AtAugment}
Bodies == Concatenations(BodyFragments, MaxBodyFrags)
Titles == {<<>>, <<"c", ".">>, <<"x">>, AtClaude, AtAugment}

\* the fields of the payload the handler can read, by event: issue and pull
\* request payloads carry a body (string or null) and a title, a review a
\* body (string or null), a comment a body; an assignment names an assignee
PayloadsOf(event) ==
    LET name == event[1]
        nullable == name \in {"issues", "pull_request", "pull_request_review"}
    IN [body : Bodies \cup (IF nullable THEN {Undefined} ELSE {}),
        title : IF name \in {"issues", "pull_request"} THEN Titles ELSE {Undefined},
        assignee : IF event = <<"issues", "assigned">>
                   THEN AssigneeLogins \cup {Undefined} ELSE {Undefined}]

InputsSet ==
    [directPrompt : DirectPrompts, assigneeTrigger : AssigneeTriggers,
     triggerPhrase : TriggerPhrases]

Contexts ==
    UNION {[eventName : {e[1]}, eventAction : {e[2]}, inputs : InputsSet,
            payload : PayloadsOf(e)] : e \in Events}

IdleContext ==
    [eventName |-> "push", eventAction |-> "created",
     inputs |-> [directPrompt |-> <<>>, assigneeTrigger |-> <<>>,
                 triggerPhrase |-> <<>>],
     payload |-> [body |-> <<>>, title |-> Undefined, assignee |-> Undefined]]

\* core.setOutput(name, value)
setOutput(name, value) == [name |-> name, value |-> value]

\* Boolean.prototype.toString
toString(b) == IF b THEN "true" ELSE "false"

NoAction == [called |-> FALSE, returned |-> FALSE, outputs |-> <<>>]

checkTriggerAction_DefaultProvider(ctx) ==
    LET result == checkContainsTrigger(ctx)
    IN [called |-> TRUE,
        returned |-> result.containsTrigger,
        outputs |-> <<setOutput("contains_trigger", toString(result.containsTrigger)),
                      setOutput("ai_provider",
                                IF result.aiProvider # Null THEN result.aiProvider
                                ELSE "claude")>>]

\* returned: the value returned; outputs: the outputs set, in order
checkTriggerAction(ctx) ==
    LET result == checkContainsTrigger(ctx)
    IN [called |-> TRUE,
        returned |-> result.containsTrigger,
        outputs |-> <<setOutput("contains_trigger", toString(result.containsTrigger))>>
                    \o (IF result.aiProvider # Null
                        THEN <<setOutput("ai_provider", result.aiProvider)>>
                        ELSE <<>>)]

\* checkContainsTrigger called directly
CheckContainsTrigger ==
    /\ triggerResult = NoResult
    /\ ~triggerAction.called
    /\ triggerResult' = checkContainsTrigger(context)
    /\ UNCHANGED <<context, triggerAction, authVars, detectVars, toolVars>>

\* checkContainsTrigger called through checkTriggerAction
CheckTriggerAction ==
    /\ triggerResult = NoResult
    /\ ~triggerAction.called
    /\ triggerResult' = checkContainsTrigger(context)
    /\ triggerAction' = checkTriggerAction(context)
    /\ UNCHANGED <<context, authVars, detectVars, toolVars>>

\* ------------------------------------------------------- tool dispatcher
\* largest exit status a subprocess of the model returns
MaxExitStatus == 2

\* an environment variable that is not set
Unset == "<unset>"
\* a check that takes every variable for set
isSet_Always(v) == TRUE

\* process.env.X as a condition, and process.env.X || fallback
isSet(v) == v # Unset /\ v # ""
orElse(v, fallback) == IF isSet(v) THEN v ELSE fallback

\* status of a spawnSync result that is null (killed by a signal, or the
\* command could not be spawned)
NullStatus == -1
ExitStatuses == (0..MaxExitStatus) \cup {NullStatus}

\* new Date().toISOString()
Now == "2025-01-01T00:00:00.000Z"

\* { ...f, ...g }
Merge(f, g) == [k \in DOMAIN f \cup DOMAIN g |-> IF k \in DOMAIN g THEN g[k] ELSE f[k]]

\* the values of AI_ENV in the model: a JSON object, and the YAML form
JsonEnvText == "{\"NODE_ENV\":\"test\"}"
YamlEnvText == "NODE_ENV: test"
\* JSON.parse: the object, or a SyntaxError
JSONparse(t) ==
    IF t = JsonEnvText THEN [ok |-> TRUE, value |-> ("NODE_ENV" :> "test")]
    ELSE [ok |-> FALSE, value |-> <<>>]

SupportedTools == <<"claude-cli", "gemini-cli", "codex-cli", "augment-cli">>

NoConfig == [command |-> "", installCommand |-> <<>>, args |-> <<>>, envSetup |-> <<>>]
NoError == <<>>
Return(cfg) == [ok |-> TRUE, config |-> cfg, error |-> NoError]
Throw(message) == [ok |-> FALSE, config |-> NoConfig, error |-> message]

\* ok: a config is returned; otherwise error holds the parts of the message
\* of the error thrown
getCliToolConfig(cliTool, e) ==
    LET promptFile == orElse(e.PROMPT_FILE, "")
        allowedTools == orElse(e.ALLOWED_TOOLS, "")
        disallowedTools == orElse(e.DISALLOWED_TOOLS, "")
        timeoutMinutes == orElse(e.TIMEOUT_MINUTES, "30")
        maxTurns == orElse(e.MAX_TURNS, "")
        model == orElse(e.MODEL, "")
        mcpConfig == orElse(e.MCP_CONFIG, "")
        apiKey == orElse(e.API_KEY, "")
        aiEnv == orElse(e.AI_ENV, "")
        parsed == IF aiEnv # "" THEN JSONparse(aiEnv) ELSE [ok |-> TRUE, value |-> <<>>]
        option(flag, value) == IF value # "" THEN <<flag, value>> ELSE <<>>
        switch(flag, value) == IF value = "true" THEN <<flag>> ELSE <<>>
        withEnv(cfg) ==
            IF parsed.ok
            THEN Return([cfg EXCEPT !.envSetup = Merge(cfg.envSetup, parsed.value)])
            ELSE Throw(<<"Unexpected token in JSON">>)
    IN CASE cliTool = "claude-cli" ->
              withEnv([command |-> "npx",
                       installCommand |-> <<"npm", "install", "-g", "@anthropic-ai/claude-code">>,
                       args |-> <<"@anthropic-ai/claude-code",
                                  "--prompt-file", promptFile,
                                  "--allowed-tools", allowedTools,
                                  "--disallowed-tools", disallowedTools,
                                  "--timeout-minutes", timeoutMinutes>>
                                \o option("--max-turns", maxTurns)
                                \o option("--model", model)
                                \o option("--mcp-config", mcpConfig)
                                \o switch("--use-bedrock", e.USE_BEDROCK)
                                \o switch("--use-vertex", e.USE_VERTEX),
                       envSetup |-> ("ANTHROPIC_API_KEY" :> apiKey
                                     @@ "ANTHROPIC_MODEL" :> model)])
         [] cliTool = "gemini-cli" ->
              withEnv([command |-> "npx",
                       installCommand |-> <<"npm", "install", "-g", "@google-ai/generativelanguage">>,
                       args |-> <<"@google-ai/generativelanguage",
                                  "--input-file", promptFile,
                                  "--model", orElse(model, "gemini-pro"),
                                  "--max-tokens", "2048",
                                  "--timeout", timeoutMinutes>>,
                       envSetup |-> ("GOOGLE_API_KEY" :> apiKey
                                     @@ "GOOGLE_AI_MODEL" :> model)])
         [] cliTool = "codex-cli" ->
              withEnv([command |-> "npx",
                       installCommand |-> <<"npm", "install", "-g", "@openai/codex">>,
                       args |-> <<"@openai/codex", "exec", "--full-auto",
                                  "Read and execute: " \o promptFile>>,
                       envSetup |-> ("OPENAI_API_KEY" :> apiKey
                                     @@ "OPENAI_MODEL" :> model)])
         [] cliTool = "augment-cli" ->
              withEnv([command |-> "npx",
                       installCommand |-> <<"npm", "install", "-g", "openai">>,
                       args |-> <<"openai", "api", "completions.create",
                                  "-m", orElse(model, "gpt-4"),
                                  "--prompt", "$(cat " \o promptFile \o ")",
                                  "--max-tokens", "2048">>,
                       envSetup |-> ("OPENAI_API_KEY" :> apiKey
                                     @@ "OPENAI_MODEL" :> model)])
         [] OTHER ->
              Throw(<<"Unsupported CLI tool: ", cliTool, ". Supported tools: ",
                      "claude-cli", ", ", "gemini-cli", ", ", "codex-cli", ", ",
                      "augment-cli">>)

\* a spawnSync call: the command, its arguments, the option names given and
\* the status of the result
spawnSync(command, args, options, status) ==
    [command |-> command, args |-> args, options |-> options, status |-> status]

\* installCliTool that runs a failed install a second time
installCliTool_RetryOnce(cfg, status) ==
    LET call == spawnSync(cfg.installCommand[1], Tail(cfg.installCommand),
                          {"stdio", "env"}, status)
    IN IF cfg.installCommand = <<>> THEN [calls |-> <<>>, error |-> NoError]
       ELSE [calls |-> IF status # 0 THEN <<call, call>> ELSE <<call>>,
             error |-> IF status # 0
                       THEN <<"Failed to install CLI tool: ", Join(cfg.installCommand, " ")>>
                       ELSE NoError]

\* installCliTool that does not look at the status of the install
installCliTool_IgnoreStatus(cfg, status) ==
    IF cfg.installCommand = <<>> THEN [calls |-> <<>>, error |-> NoError]
    ELSE [calls |-> <<spawnSync(cfg.installCommand[1], Tail(cfg.installCommand),
                                {"stdio", "env"}, status)>>,
          error |-> NoError]

\* calls: the spawnSync calls made; error: the message thrown, if any
installCliTool(cfg, status) ==
    IF cfg.installCommand = <<>> THEN [calls |-> <<>>, error |-> NoError]
    ELSE [calls |-> <<spawnSync(cfg.installCommand[1], Tail(cfg.installCommand),
                                {"stdio", "env"}, status)>>,
          error |-> IF status # 0
                    THEN <<"Failed to install CLI tool: ", Join(cfg.installCommand, " ")>>
                    ELSE NoError]

\* join(process.env.RUNNER_TEMP || "/tmp", "ai-execution-output.json")
outputPath(e) == orElse(e.RUNNER_TEMP, "/tmp") \o "/ai-execution-output.json"

Absent == [type |-> "absent"]
\* a file the CLI tool, or an earlier step, wrote itself
ForeignFile == [type |-> "foreign"]

\* executeCliTool that takes a null status for success (!result.status)
executeCliTool_NullIsSuccess(cfg, e, status, found) ==
    LET result == IF status \in {0, NullStatus} THEN "success" ELSE "failure"
    IN [calls |-> <<spawnSync(cfg.command, cfg.args, {"stdio", "env", "cwd"}, status)>>,
        conclusion |-> result,
        outputFile |-> outputPath(e),
        file |-> IF found.type = "absent"
                 THEN [type |-> "result", status |-> result, exit_code |-> status,
                       command |-> cfg.command \o " " \o Join(cfg.args, " "),
                       timestamp |-> Now]
                 ELSE found]

\* executeCliTool that leaves a missing output file missing
executeCliTool_NoFile(cfg, e, status, found) ==
    LET result == IF status = 0 THEN "success" ELSE "failure"
    IN [calls |-> <<spawnSync(cfg.command, cfg.args, {"stdio", "env", "cwd"}, status)>>,
        conclusion |-> result,
        outputFile |-> outputPath(e),
        file |-> found]

\* status: exit status of the command; found: the file at the output path
\* when the command has ended.
\* calls: the spawnSync call; conclusion and outputFile: the value returned;
\* file: the file at the output path afterwards
executeCliTool(cfg, e, status, found) ==
    LET result == IF status = 0 THEN "success" ELSE "failure"
    IN [calls |-> <<spawnSync(cfg.command, cfg.args, {"stdio", "env", "cwd"}, status)>>,
        conclusion |-> result,
        outputFile |-> outputPath(e),
        file |-> IF found.type = "absent"
                 THEN [type |-> "result", status |-> result, exit_code |-> status,
                       command |-> cfg.command \o " " \o Join(cfg.args, " "),
                       timestamp |-> Now]
                 ELSE found]

\* core.setFailed sets process.exitCode to 1
Failure == 1

\* run(), up to the resolved configuration
Resolve ==
    /\ pc = "start"
    /\ LET cliTool == orElse(env.CLI_TOOL, "claude-cli")
           r == getCliToolConfig(cliTool, env)
       IN IF ~isSet(env.PROMPT_FILE)
          THEN /\ thrown' = <<"PROMPT_FILE environment variable is required">>
               /\ pc' = "catch"
               /\ UNCHANGED config
          ELSE IF ~promptFileExists
          THEN /\ thrown' = <<"Prompt file not found: ", env.PROMPT_FILE>>
               /\ pc' = "catch"
               /\ UNCHANGED config
          ELSE IF ~r.ok
          THEN /\ thrown' = r.error
               /\ pc' = "catch"
               /\ UNCHANGED config
          ELSE /\ config' = r.config
               /\ pc' = "install"
               /\ UNCHANGED thrown
    /\ UNCHANGED <<env, promptFileExists, outputFile, spawned, conclusion, outputs,
                   failures, exitCode>>
    /\ UNCHANGED <<escapeVars, authVars, detectVars, triggerVars, entryVars, branchVars>>

\* await installCliTool(config)
InstallCliTool ==
    /\ pc = "install"
    /\ \E status \in ExitStatuses :
          LET r == installCliTool(config, status)
          IN /\ spawned' = spawned \o r.calls
             /\ thrown' = r.error
             /\ pc' = IF r.error # NoError THEN "catch" ELSE "execute"
    /\ UNCHANGED <<env, promptFileExists, outputFile, config, conclusion, outputs,
                   failures, exitCode>>
    /\ UNCHANGED <<escapeVars, authVars, detectVars, triggerVars, entryVars, branchVars>>

\* await executeCliTool(config); the command may write the output file
ExecuteCliTool ==
    /\ pc = "execute"
    /\ \E status \in ExitStatuses, found \in {outputFile, ForeignFile} :
          LET r == executeCliTool(config, env, status, found)
          IN /\ spawned' = spawned \o r.calls
             /\ conclusion' = r.conclusion
             /\ outputFile' = r.file
    /\ pc' = "report"
    /\ UNCHANGED <<env, promptFileExists, config, thrown, outputs, failures, exitCode>>
    /\ UNCHANGED <<escapeVars, authVars, detectVars, triggerVars, entryVars, branchVars>>

\* a run() that reports every conclusion as it is, without setFailed
isFailedConclusion_Never(c) == FALSE

\* if (conclusion !== "success")
isFailedConclusion(c) == c # "success"

\* the outputs of run() after executeCliTool returned; run() ends
Report ==
    /\ pc = "report"
    /\ outputs' = outputs \o <<setOutput("execution_file", outputPath(env)),
                               setOutput("conclusion", conclusion)>>
    /\ IF isFailedConclusion(conclusion)
       THEN /\ failures' = Append(failures,
                   <<"CLI tool execution failed with exit code: ", conclusion>>)
            /\ exitCode' = Failure
       ELSE UNCHANGED <<failures, exitCode>>
    /\ pc' = "exited"
    /\ UNCHANGED <<env, promptFileExists, outputFile, config, thrown, spawned, conclusion>>
    /\ UNCHANGED <<escapeVars, authVars, detectVars, triggerVars, entryVars, branchVars>>

\* the catch block of run()
Catch ==
    /\ pc = "catch"
    /\ failures' = Append(failures, <<"Execute CLI failed: ">> \o thrown)
    /\ outputFile' = [type |-> "error", error |-> thrown, timestamp |-> Now]
    /\ outputs' = outputs \o <<setOutput("execution_file", outputPath(env)),
                               setOutput("conclusion", "failure")>>
    /\ exitCode' = 1
    /\ pc' = "exited"
    /\ UNCHANGED <<env, promptFileExists, config, thrown, spawned, conclusion>>
    /\ UNCHANGED <<escapeVars, authVars, detectVars, triggerVars, entryVars, branchVars>>

CliTools == {Unset, "", "claude-cli", "gemini-cli", "codex-cli", "augment-cli",
             "foo-cli", "Claude-CLI"}

Environments ==
    [CLI_TOOL : CliTools,
     PROMPT_FILE : {Unset, "/tmp/prompt.txt"},
     ALLOWED_TOOLS : {"Edit,Replace"},
     DISALLOWED_TOOLS : {Unset},
     TIMEOUT_MINUTES : {Unset, "60"},
     MAX_TURNS : {Unset, "5"},
     MODEL : {Unset, "some-model"},
     MCP_CONFIG : {Unset},
     API_KEY : {"secret-key"},
     AI_ENV : {Unset, JsonEnvText, YamlEnvText},
     USE_BEDROCK : {Unset, "true"},
     USE_VERTEX : {Unset},
     RUNNER_TEMP : {Unset, "/runner/tmp"}]

IdleEnvironment ==
    [CLI_TOOL |-> Unset, PROMPT_FILE |-> Unset, ALLOWED_TOOLS |-> Unset,
     DISALLOWED_TOOLS |-> Unset, TIMEOUT_MINUTES |-> Unset, MAX_TURNS |-> Unset,
     MODEL |-> Unset, MCP_CONFIG |-> Unset, API_KEY |-> Unset, AI_ENV |-> Unset,
     USE_BEDROCK |-> Unset, USE_VERTEX |-> Unset, RUNNER_TEMP |-> Unset]

DispatchFresh ==
    /\ config = NoConfig
    /\ thrown = NoError
    /\ spawned = <<>>
    /\ conclusion = Pending
    /\ outputs = <<>>
    /\ failures = <<>>
    /\ exitCode = 0

DispatchIdle ==
    /\ env = IdleEnvironment
    /\ promptFileExists = FALSE
    /\ outputFile = Absent
    /\ pc = "idle"
    /\ DispatchFresh

\* ------------------------------------------------ Augment / Hud entrypoint
\* a value that is neither undefined nor the empty string
present(x) == x # Undefined /\ x # <<>>

\* str.split(separator), on a sequence of characters
RECURSIVE split(_, _)
split(str, separator) ==
    IF \A i \in DOMAIN str : str[i] # separator THEN <<str>>
    ELSE LET first == CHOOSE k \in DOMAIN str :
                          /\ str[k] = separator
                          /\ \A j \in 1..(k - 1) : str[j] # separator
         IN <<SubSeq(str, 1, first - 1)>>
            \o split(SubSeq(str, first + 1, Len(str)), separator)

\* an element of a destructured array: undefined past its end
elementAt(parts, i) == IF i <= Len(parts) THEN parts[i] ELSE Undefined

RECURSIVE trimStart(_)
trimStart(str) ==
    IF str # <<>> /\ Head(str) \in WhiteSpace THEN trimStart(Tail(str)) ELSE str
RECURSIVE trimEnd(_)
trimEnd(str) ==
    IF str # <<>> /\ str[Len(str)] \in WhiteSpace
    THEN trimEnd(SubSeq(str, 1, Len(str) - 1)) ELSE str
trim(str) == trimEnd(trimStart(str))
\* str.substring(1)
substring1(str) == IF str = <<>> THEN <<>> ELSE Tail(str)

DigitValue ==
    "0" :> 0 @@ "1" :> 1 @@ "2" :> 2 @@ "3" :> 3 @@ "4" :> 4 @@
    "5" :> 5 @@ "6" :> 6 @@ "7" :> 7 @@ "8" :> 8 @@ "9" :> 9
NaN == [nan |-> TRUE, value |-> 0]
RECURSIVE parseDigits(_, _)
parseDigits(str, acc) ==
    IF str # <<>> /\ Head(str) \in DOMAIN DigitValue
    THEN parseDigits(Tail(str), acc * 10 + DigitValue[Head(str)])
    ELSE acc
\* parseInt: the leading decimal digits after leading white space, or NaN
parseInt(str) ==
    LET s == trimStart(str)
    IN IF s = <<>> \/ Head(s) \notin DOMAIN DigitValue THEN NaN
       ELSE [nan |-> FALSE, value |-> parseDigits(s, 0)]
\* a < n on numbers: false when a is NaN
lessThan(a, n) == ~a.nan /\ a.value < n

\* the oldest major version of Node.js the entrypoint accepts
MinNodeMajor == 22

Product(v) == IF v = "augment" THEN "Augment" ELSE "Hud"
\* the status lines of the comments (without their leading emoji)
WorkingStatus(v) ==
    IF v = "augment" THEN "Augment is working on your request..."
    ELSE "Hud + Augment is working on your request..."
NodeErrorStatus(v) ==
    "**Error**: Failed to check Node.js version. " \o Product(v)
    \o " requires Node.js 22 or newer."
SessionErrorStatus(v) == "**Error**: Failed to setup " \o Product(v) \o " session."
CliErrorStatus(v) == "**" \o Product(v) \o " CLI Error**"
FatalStatus == "**Fatal Error**"
CompletedHeader(v) == "**" \o Product(v) \o " completed your request**"
ErrorStatuses(v) == {NodeErrorStatus(v), SessionErrorStatus(v), CliErrorStatus(v), FatalStatus}

\* createOctokit of ../github/api/client: a thin wrapper that builds the
\* client for a token; it calls no API and raises nothing
createOctokit(githubToken) == [auth |-> githubToken]

\* updateProgressComment that lets the failure of the update escape
updateProgressComment_Rethrow(githubToken, repository, commentId, status, content, apiOk) ==
    LET parts == split(repository, "/")
        owner == elementAt(parts, 1)
        repo == elementAt(parts, 2)
    IN IF ~present(owner) \/ ~present(repo) THEN [calls |-> <<>>, threw |-> FALSE]
       ELSE [calls |-> <<[owner |-> owner, repo |-> repo, commentId |-> commentId,
                          auth |-> createOctokit(githubToken).auth,
                          body |-> (IF status # "" THEN <<status>> ELSE <<>>) \o content,
                          ok |-> apiOk]>>,
             threw |-> ~apiOk]

\* apiOk: whether updateClaudeComment succeeds.
\* calls: the updateClaudeComment calls made; threw: whether an error escapes
updateProgressComment(githubToken, repository, commentId, status, content, apiOk) ==
    LET parts == split(repository, "/")
        owner == elementAt(parts, 1)
        repo == elementAt(parts, 2)
    IN IF ~present(owner) \/ ~present(repo) THEN [calls |-> <<>>, threw |-> FALSE]
       ELSE [calls |-> <<[owner |-> owner, repo |-> repo, commentId |-> commentId,
                          auth |-> createOctokit(githubToken).auth,
                          body |-> (IF status # "" THEN <<status>> ELSE <<>>) \o content,
                          ok |-> apiOk]>>,
             threw |-> FALSE]

NotRun == [ran |-> FALSE, error |-> "", stdout |-> <<>>]
NotExecuted == [ran |-> FALSE, error |-> "", stdout |-> "", stderr |-> ""]

\* what execAsync("node --version") can give: an error, or a version line
NodeResults ==
    {[ran |-> TRUE, error |-> "spawn node ENOENT", stdout |-> <<>>],
     [ran |-> TRUE, error |-> "", stdout |-> <<"v", "2", "2", ".", "1", ".", "0", "\n">>],
     [ran |-> TRUE, error |-> "", stdout |-> <<"v", "2", "4", ".", "0", ".", "0", "\n">>],
     [ran |-> TRUE, error |-> "", stdout |-> <<"v", "1", "8", ".", "2", "0", ".", "4", "\n">>],
     [ran |-> TRUE, error |-> "", stdout |-> <<"v", "9", ".", "1", "1", ".", "2", "\n">>],
     [ran |-> TRUE, error |-> "", stdout |-> <<"n", "o", "d", "e", "\n">>]}

\* the error of the Node.js version check, "" when it passes
nodeVersionError(result) ==
    IF result.error # "" THEN result.error
    ELSE LET majorVersion == parseInt(substring1(trim(result.stdout)))
         IN IF lessThan(majorVersion, MinNodeMajor)
            THEN "Node.js version is too old. Augment requires Node.js 22 or newer."
            ELSE ""

\* what the CLI execution can give: output, or an error of execAsync (a
\* non-zero exit status, the timeout, stdout over maxBuffer)
CliResults ==
    {[ran |-> TRUE, error |-> "", stdout |-> "Done.", stderr |-> ""],
     [ran |-> TRUE, error |-> "", stdout |-> "", stderr |-> "warning"],
     [ran |-> TRUE, error |-> "exit", stdout |-> "partial", stderr |-> "boom"],
     [ran |-> TRUE, error |-> "timeout", stdout |-> "", stderr |-> ""],
     [ran |-> TRUE, error |-> "maxBuffer", stdout |-> "partial", stderr |-> ""]}

\* the options of the execAsync call of the CLI execution
CliTimeout == 15 * 60 * 1000
CliMaxBuffer == 10 * 1024 * 1024
CliExecOptions == [timeout |-> CliTimeout, maxBuffer |-> CliMaxBuffer]
\* an execAsync call without options
NoExecOptions == <<>>

\* the command line, as the parts of its template literal
augmentCommand(githubToken, instructionFile) ==
    <<"npx https://augment-assets.com/augment-latest.tgz --ni --github-api-token \"",
      githubToken, "\" --instruction-file \"", instructionFile, "\"">>

\* String.prototype.replace with a string pattern: the first occurrence only
replace(parts, pattern, replacement) ==
    LET hits == {i \in DOMAIN parts : parts[i] = pattern}
    IN IF hits = {} THEN parts
       ELSE LET first == CHOOSE i \in hits : \A j \in hits : i <= j
            IN [parts EXCEPT ![first] = replacement]

\* the line console.log prints before the CLI execution
commandLogLine(command, githubToken) ==
    <<"Command: ">> \o replace(command, githubToken, "[REDACTED]")

\* error.message of a failed execAsync(command)
execErrorMessage(command, result) ==
    IF result.error = "maxBuffer" THEN <<"stdout maxBuffer length exceeded">>
    ELSE <<"Command failed: ">> \o command \o <<"\n", result.stderr>>

\* the line console.error prints for a failed execAsync(command): the error
\* with its message
failureLogLine(v, command, result) ==
    <<Product(v) \o " CLI failed:">> \o execErrorMessage(command, result)

\* the content of the final comment; instruction: the content of the
\* instruction file, Unset when it cannot be read. The outputs of the model
\* carry no surrounding white space and no markdown headers.
finalComment(v, triggerUsername, instruction, result) ==
    <<CompletedHeader(v)>>
    \o (IF isSet(triggerUsername) THEN <<"@" \o triggerUsername \o " ">> ELSE <<>>)
    \o (IF v = "augment" /\ isSet(instruction)
        THEN <<"**Original Request:**", instruction>> ELSE <<>>)
    \o (IF result.stdout # ""
        THEN (IF v = "augment" THEN <<"**Augment's Response:**">> ELSE <<>>)
             \o <<result.stdout>>
        ELSE <<Product(v) \o " completed the task but didn't provide detailed output.">>)
    \o (IF result.stderr # "" THEN <<"<details>", result.stderr, "</details>">> ELSE <<>>)
    \o <<"---\n*Powered by [Hud + Augment](https://www.hud.io)*">>

entryUpdate(status, content, apiOk) ==
    updateProgressComment(entryEnv.GITHUB_TOKEN, entryEnv.REPOSITORY,
                          entryEnv.CLAUDE_COMMENT_ID, status, content, apiOk)

\* process.exit(1)
EntryExits == entryPc' = "exited" /\ entryExit' = 1
\* an error escapes to the outer catch of run()
EntryThrows(message) == entryPc' = "fatal" /\ entryThrown' = message /\ UNCHANGED entryExit

\* a catch block that exits without touching the comment
ReportAndExit_NoUpdate(status, content) ==
    EntryExits /\ UNCHANGED <<commentUpdates, entryThrown>>

\* an update inside a catch block of run(), followed by process.exit(1)
ReportAndExit(status, content) ==
    \E apiOk \in BOOLEAN :
        LET r == entryUpdate(status, content, apiOk)
        IN /\ commentUpdates' = commentUpdates \o r.calls
           /\ IF r.threw
              THEN EntryThrows("Failed to update comment")
              ELSE EntryExits /\ UNCHANGED entryThrown

\* run(): the required variables and the first progress comment
EntryStart ==
    /\ entryPc = "start"
    /\ IF ~isSet(entryEnv.GITHUB_TOKEN)
       THEN EntryThrows("GITHUB_TOKEN environment variable is required")
            /\ UNCHANGED commentUpdates
       ELSE IF ~isSet(entryEnv.AUGMENT_API_KEY)
       THEN EntryThrows("AUGMENT_API_KEY environment variable is required")
            /\ UNCHANGED commentUpdates
       ELSE IF ~isSet(entryEnv.INSTRUCTION_FILE)
       THEN EntryThrows("INSTRUCTION_FILE environment variable is required")
            /\ UNCHANGED commentUpdates
       ELSE IF ~isSet(entryEnv.CLAUDE_COMMENT_ID)
       THEN EntryThrows("CLAUDE_COMMENT_ID environment variable is required")
            /\ UNCHANGED commentUpdates
       ELSE IF ~present(entryEnv.REPOSITORY)
       THEN EntryThrows("REPOSITORY environment variable is required")
            /\ UNCHANGED commentUpdates
       ELSE \E apiOk \in BOOLEAN :
                LET r == entryUpdate(WorkingStatus(variant), <<>>, apiOk)
                IN /\ commentUpdates' = commentUpdates \o r.calls
                   /\ IF r.threw
                      THEN EntryThrows("Failed to update comment")
                      ELSE entryPc' = "node" /\ UNCHANGED <<entryThrown, entryExit>>
    /\ UNCHANGED <<variant, entryEnv, entrySpawned, nodeResult, sessionResult, cliResult, entryLog>>
    /\ UNCHANGED <<escapeVars, authVars, detectVars, triggerVars, dispatchVars, branchVars>>

\* run(): the Node.js version check
CheckNodeVersion ==
    /\ entryPc = "node"
    /\ \E result \in NodeResults :
          /\ nodeResult' = result
          /\ entrySpawned' = Append(entrySpawned, [command |-> <<"node --version">>, options |-> NoExecOptions])
          /\ IF nodeVersionError(result) # ""
             THEN ReportAndExit(NodeErrorStatus(variant),
                                <<"Error: ", nodeVersionError(result)>>)
             ELSE /\ entryPc' = "session"
                  /\ UNCHANGED <<commentUpdates, entryThrown, entryExit>>
    /\ UNCHANGED <<variant, entryEnv, sessionResult, cliResult, entryLog>>
    /\ UNCHANGED <<escapeVars, authVars, detectVars, triggerVars, dispatchVars, branchVars>>

\* run(): setupAugmentSession / setupHudSession, whose writeFileSync may throw
SetupSession ==
    /\ entryPc = "session"
    /\ \E result \in {"ok", "EACCES: permission denied"} :
          /\ sessionResult' = result
          /\ IF result # "ok"
             THEN ReportAndExit(SessionErrorStatus(variant), <<"Error: ", result>>)
             ELSE /\ entryPc' = "cli"
                  /\ UNCHANGED <<commentUpdates, entryThrown, entryExit>>
    /\ UNCHANGED <<variant, entryEnv, entrySpawned, nodeResult, cliResult, entryLog>>
    /\ UNCHANGED <<escapeVars, authVars, detectVars, triggerVars, dispatchVars, branchVars>>

\* run(): the CLI execution
ExecuteCli ==
    /\ entryPc = "cli"
    /\ \E result \in CliResults :
          LET command == augmentCommand(entryEnv.GITHUB_TOKEN, entryEnv.INSTRUCTION_FILE)
          IN /\ cliResult' = result
             /\ entrySpawned' = Append(entrySpawned,
                    [command |-> command, options |-> CliExecOptions])
             /\ entryLog' = entryLog
                    \o <<commandLogLine(command, entryEnv.GITHUB_TOKEN)>>
                    \o (IF result.error # ""
                        THEN <<failureLogLine(variant, command, result)>> ELSE <<>>)
             /\ IF result.error # ""
                THEN ReportAndExit(CliErrorStatus(variant),
                         <<"Error: ">> \o execErrorMessage(command, result)
                         \o <<"Stderr: ", result.stderr, "Partial output: ", result.stdout>>)
                ELSE /\ entryPc' = "final"
                     /\ UNCHANGED <<commentUpdates, entryThrown, entryExit>>
    /\ UNCHANGED <<variant, entryEnv, nodeResult, sessionResult>>
    /\ UNCHANGED <<escapeVars, authVars, detectVars, triggerVars, dispatchVars, branchVars>>

\* run(): the final comment; run() returns
FinalComment ==
    /\ entryPc = "final"
    /\ \E apiOk \in BOOLEAN, instruction \in {Unset, "fix the bug"} :
          LET r == entryUpdate("", finalComment(variant, entryEnv.TRIGGER_USERNAME,
                                                 instruction, cliResult), apiOk)
          IN /\ commentUpdates' = commentUpdates \o r.calls
             /\ IF r.threw
                THEN EntryThrows("Failed to update comment")
                ELSE entryPc' = "exited" /\ UNCHANGED <<entryThrown, entryExit>>
    /\ UNCHANGED <<variant, entryEnv, entrySpawned, nodeResult, sessionResult, cliResult, entryLog>>
    /\ UNCHANGED <<escapeVars, authVars, detectVars, triggerVars, dispatchVars, branchVars>>

\* the outer catch of run()
Fatal ==
    /\ entryPc = "fatal"
    /\ IF /\ isSet(entryEnv.GITHUB_TOKEN)
          /\ present(entryEnv.REPOSITORY)
          /\ isSet(entryEnv.CLAUDE_COMMENT_ID)
       THEN \E apiOk \in BOOLEAN :
                commentUpdates' = commentUpdates
                    \o entryUpdate(FatalStatus,
                                   <<"An unexpected error occurred: ", entryThrown>>,
                                   apiOk).calls
       ELSE UNCHANGED commentUpdates
    /\ EntryExits
    /\ UNCHANGED <<variant, entryEnv, entryThrown, entrySpawned, nodeResult, sessionResult,
                   cliResult, entryLog>>
    /\ UNCHANGED <<escapeVars, authVars, detectVars, triggerVars, dispatchVars, branchVars>>

Repositories ==
    {Undefined, <<>>, <<"o", "/", "r">>, <<"o", "r">>, <<"/", "r">>, <<"o", "/">>,
     <<"o", "/", "/", "r">>}

EntryEnvironments ==
    [GITHUB_TOKEN : {Unset, "ghs_token"},
     AUGMENT_API_KEY : {Unset, "augment-key"},
     INSTRUCTION_FILE : {Unset, "/tmp/instruction.txt"},
     CLAUDE_COMMENT_ID : {Unset, "42"},
     REPOSITORY : Repositories,
     TRIGGER_USERNAME : {Unset, "alice"}]

EntryFresh ==
    /\ entryThrown = ""
    /\ entrySpawned = <<>>
    /\ nodeResult = NotRun
    /\ sessionResult = Pending
    /\ cliResult = NotExecuted
    /\ commentUpdates = <<>>
    /\ entryExit = 0
    /\ entryLog = <<>>

EntryIdle ==
    /\ variant = "augment"
    /\ entryEnv = [GITHUB_TOKEN |-> Unset, AUGMENT_API_KEY |-> Unset,
                   INSTRUCTION_FILE |-> Unset, CLAUDE_COMMENT_ID |-> Unset,
                   REPOSITORY |-> Undefined, TRIGGER_USERNAME |-> Unset]
    /\ entryPc = "idle"
    /\ EntryFresh

\* ------------------------------------------------------ branch housekeeping
\* most commits a comparison of the model reports
MaxCommits == 2

\* what compareCommitsWithBasehead can give: an error, or a comparison
Comparisons ==
    {[ok |-> FALSE, total_commits |-> 0]}
    \cup {[ok |-> TRUE, total_commits |-> n] : n \in 0..MaxCommits}

\* deleteOk: whether deleteRef succeeds.
\* calls: the API calls made; threw: whether an error escapes; the other two
\* fields are the value returned
\* checkAndDeleteEmptyBranch that deletes every branch without commits,
\* analysis branches of an Augment run included
checkAndDeleteEmptyBranch_DeleteAnyEmpty(in, deleteOk) ==
    LET link == <<"\n[View branch](", in.serverUrl, "/", in.owner, "/", in.repo,
                  "/tree/", in.claudeBranch, ")">>
        compare == [api |-> "compareCommitsWithBasehead",
                    ref |-> in.baseBranch \o "..." \o in.claudeBranch,
                    ok |-> in.comparison.ok]
        shouldDeleteBranch ==
            isSet(in.claudeBranch) /\ in.comparison.ok /\ in.comparison.total_commits = 0
    IN [calls |-> (IF isSet(in.claudeBranch) THEN <<compare>> ELSE <<>>)
                  \o (IF shouldDeleteBranch
                      THEN <<[api |-> "deleteRef", ref |-> "heads/" \o in.claudeBranch,
                              ok |-> deleteOk]>>
                      ELSE <<>>),
        threw |-> FALSE,
        shouldDeleteBranch |-> shouldDeleteBranch,
        branchLink |-> IF isSet(in.claudeBranch) /\ ~shouldDeleteBranch THEN link ELSE <<>>]

checkAndDeleteEmptyBranch(in, deleteOk) ==
    LET link == <<"\n[View branch](", in.serverUrl, "/", in.owner, "/", in.repo,
                  "/tree/", in.claudeBranch, ")">>
        compare == [api |-> "compareCommitsWithBasehead",
                    ref |-> in.baseBranch \o "..." \o in.claudeBranch,
                    ok |-> in.comparison.ok]
        isAugmentRun == isSet(in.augmentApiKey)
        shouldDeleteBranch ==
            /\ isSet(in.claudeBranch)
            /\ in.comparison.ok
            /\ in.comparison.total_commits = 0
            /\ ~isAugmentRun
        branchLink ==
            IF ~isSet(in.claudeBranch) THEN <<>>
            ELSE IF ~in.comparison.ok THEN link
            ELSE IF in.comparison.total_commits = 0
            THEN (IF isAugmentRun THEN link ELSE <<>>)
            ELSE link
    IN [calls |-> (IF isSet(in.claudeBranch) THEN <<compare>> ELSE <<>>)
                  \o (IF shouldDeleteBranch /\ isSet(in.claudeBranch)
                      THEN <<[api |-> "deleteRef", ref |-> "heads/" \o in.claudeBranch,
                              ok |-> deleteOk]>>
                      ELSE <<>>),
        threw |-> FALSE,
        shouldDeleteBranch |-> shouldDeleteBranch,
        branchLink |-> branchLink]

NoBranchResult ==
    [calls |-> <<>>, threw |-> FALSE, shouldDeleteBranch |-> FALSE, branchLink |-> <<>>]

CheckAndDeleteEmptyBranch ==
    /\ branchPc = "start"
    /\ \E deleteOk \in BOOLEAN :
          LET r == checkAndDeleteEmptyBranch(branchInput, deleteOk)
          IN /\ branchCalls' = branchCalls \o r.calls
             /\ branchResult' = r
    /\ branchPc' = "returned"
    /\ UNCHANGED branchInput
    /\ UNCHANGED <<escapeVars, authVars, detectVars, triggerVars, dispatchVars, entryVars>>

BranchInputs ==
    [owner : {"o"}, repo : {"r"}, serverUrl : {"https://github.com"},
     claudeBranch : {Unset, "", "claude/issue-1"},
     baseBranch : {"main"},
     comparison : Comparisons,
     augmentApiKey : {Unset, "", "augment-key"}]

BranchIdle ==
    /\ branchInput = [owner |-> "", repo |-> "", serverUrl |-> "", claudeBranch |-> Unset,
                      baseBranch |-> "", comparison |-> [ok |-> FALSE, total_commits |-> 0],
                      augmentApiKey |-> Unset]
    /\ branchPc = "idle"
    /\ branchCalls = <<>>
    /\ branchResult = NoBranchResult

\* ------------------------------------------------------ escapeRegExp alone
\* longest argument of escapeRegExp
MaxEscapeLen == 2

EscapeAlphabet == SpecialCharacters \cup {"a", "/"}
EscapeStrings == UNION {[1..n -> EscapeAlphabet] : n \in 0..MaxEscapeLen}
\* the string with one character replaced
Replaced(str, i, ch) == [str EXCEPT ![i] = ch]
\* the string itself and its near misses
Variants(str) ==
    {str} \cup {Replaced(str, i, ch) : i \in DOMAIN str, ch \in {"a", "\\", "\n"}}
Pads == {<<>>, <<"a">>, <<" ">>}
\* the texts an expression for str is tested on
EscapeTexts(str) == {pre \o v \o post : pre \in Pads, v \in Variants(str), post \in Pads}

\* new RegExp(escapeRegExp(string)).test(text)
EscapeAndTest ==
    /\ escPc = "start"
    /\ escResult' = escapeRegExp(escString)
    /\ escMatched' = test(compile(escapeRegExp(escString)), escText)
    /\ escPc' = "done"
    /\ UNCHANGED <<escString, escText>>
    /\ UNCHANGED <<authVars, detectVars, triggerVars, dispatchVars, entryVars, branchVars>>

EscapeIdle ==
    /\ escString = <<>>
    /\ escText = <<>>
    /\ escPc = "idle"
    /\ escResult = <<>>
    /\ escMatched = FALSE

ToolsIdle == DispatchIdle /\ EntryIdle /\ BranchIdle /\ EscapeIdle

DetectIdle == text = <<>> /\ provider = Pending
TriggerIdle ==
    context = IdleContext /\ triggerResult = NoResult /\ triggerAction = NoAction

Init ==
    /\ actor \in Logins
    /\ accountType \in AccountTypes \cup {ApiFailure}
    /\ allowedBotNames \in BotLists
    /\ permission \in Permissions \cup {ApiFailure}
    /\ allowedActor = Pending
    /\ writePermission = Pending
    /\ apiCalls = <<>>
    /\ authThrown = <<>>
    /\ DetectIdle
    /\ TriggerIdle
    /\ ToolsIdle

Next ==
    \/ CheckAllowedActor
    \/ CheckWritePermissions

\* the actor authorizer: both gates, in either order, at most once each
Spec == Init /\ [][Next]_vars

AuthIdle ==
    /\ actor = "alice"
    /\ accountType = "User"
    /\ allowedBotNames = <<>>
    /\ permission = "read"
    /\ allowedActor = Pending
    /\ writePermission = Pending
    /\ apiCalls = <<>>
    /\ authThrown = <<>>

InitDetect ==
    /\ text \in DetectTexts
    /\ provider = Pending
    /\ AuthIdle
    /\ TriggerIdle
    /\ ToolsIdle

NextDetect == DetectAIProvider

\* detectAIProvider applied to one text
SpecDetect == InitDetect /\ [][NextDetect]_vars

InitTrigger ==
    /\ context \in Contexts
    /\ triggerResult = NoResult
    /\ triggerAction = NoAction
    /\ AuthIdle
    /\ DetectIdle
    /\ ToolsIdle

NextTrigger ==
    \/ CheckContainsTrigger
    \/ CheckTriggerAction

\* checkContainsTrigger applied to one event context
SpecTrigger == InitTrigger /\ [][NextTrigger]_vars

InitDispatch ==
    /\ env \in Environments
    /\ promptFileExists \in BOOLEAN
    /\ promptFileExists => env.PROMPT_FILE \notin {Unset, ""}
    /\ outputFile \in {Absent, ForeignFile}
    /\ pc = "start"
    /\ DispatchFresh
    /\ EntryIdle
    /\ BranchIdle
    /\ EscapeIdle
    /\ AuthIdle
    /\ DetectIdle
    /\ TriggerIdle

NextDispatch ==
    \/ Resolve
    \/ InstallCliTool
    \/ ExecuteCliTool
    \/ Report
    \/ Catch

\* one run of the CLI tool dispatcher
SpecDispatch == InitDispatch /\ [][NextDispatch]_vars

InitEntry ==
    /\ variant \in {"augment", "hud"}
    /\ entryEnv \in EntryEnvironments
    /\ entryPc = "start"
    /\ EntryFresh
    /\ DispatchIdle
    /\ BranchIdle
    /\ EscapeIdle
    /\ AuthIdle
    /\ DetectIdle
    /\ TriggerIdle

NextEntry ==
    \/ EntryStart
    \/ CheckNodeVersion
    \/ SetupSession
    \/ ExecuteCli
    \/ FinalComment
    \/ Fatal

\* one run of the Augment or Hud entrypoint
SpecEntry == InitEntry /\ [][NextEntry]_vars

InitBranch ==
    /\ branchInput \in BranchInputs
    /\ branchPc = "start"
    /\ branchCalls = <<>>
    /\ branchResult = NoBranchResult
    /\ DispatchIdle
    /\ EntryIdle
    /\ EscapeIdle
    /\ AuthIdle
    /\ DetectIdle
    /\ TriggerIdle

\* one invocation of one of the three programs: the dispatcher, an
\* entrypoint, or the branch housekeeping
InitTools == InitDispatch \/ InitEntry \/ InitBranch

NextTools ==
    \/ NextDispatch
    \/ NextEntry
    \/ CheckAndDeleteEmptyBranch

SpecTools == InitTools /\ [][NextTools]_vars

InitEscape ==
    /\ escString \in EscapeStrings
    /\ escText \in EscapeTexts(escString)
    /\ escPc = "start"
    /\ escResult = <<>>
    /\ escMatched = FALSE
    /\ DispatchIdle
    /\ EntryIdle
    /\ BranchIdle
    /\ AuthIdle
    /\ DetectIdle
    /\ TriggerIdle

NextEscape == EscapeAndTest

\* escapeRegExp applied to one string, and its expression to one text
SpecEscape == InitEscape /\ [][NextEscape]_vars

\* ================================================================ claims
\* the actor's login is an element of allowedBotNames
Listed == actor \in {allowedBotNames[i] : i \in DOMAIN allowedBotNames}

\* C1: once the user lookup has answered, checkAllowedActor succeeds exactly
\* when the account type is "User", or it is "Bot" and the login is listed;
\* every other case is rejected, and no Bot passes an empty list.
C1_AllowedActorIff ==
    (allowedActor # Pending /\ accountType # ApiFailure) =>
        /\ allowedActor \in {"ok", "unauthorized"}
        /\ allowedActor = "ok" <=>
               (accountType = "User" \/ (accountType = "Bot" /\ Listed))
        /\ (accountType = "Bot" /\ allowedBotNames = <<>>) => allowedActor # "ok"

\* an organization account is rejected although its login is listed
C1_Witness ==
    /\ allowedActor = "unauthorized"
    /\ accountType = "Organization"
    /\ Listed

\* C2: for an unlisted actor whose permission lookup answers,
\* checkWritePermissions returns true exactly for "admin" and "write" and
\* false for every other permission level.
C2_WriteOrAdminOnly ==
    (writePermission # Pending /\ ~Listed /\ permission # ApiFailure) =>
        writePermission = (IF permission \in {"admin", "write"} THEN "true" ELSE "false")

\* "maintain" is not enough
C2_Witness ==
    /\ writePermission = "false"
    /\ permission = "maintain"
    /\ ~Listed

\* C3: for a listed actor checkWritePermissions returns true and the
\* collaborator-permission endpoint is not called.
C3_ListedSkipsApi ==
    (writePermission # Pending /\ Listed) =>
        /\ writePermission = "true"
        /\ \A i \in DOMAIN apiCalls :
               apiCalls[i].api # "repos.getCollaboratorPermissionLevel"

\* a listed actor passes although the endpoint would have failed
C3_Witness ==
    /\ writePermission = "true"
    /\ Listed
    /\ permission = ApiFailure

\* C4: an actor of type "User" that passed both gates has permission
\* "admin" or "write", whatever allowedBotNames holds.
C4_HumanNeedsWriteAccess ==
    (allowedActor = "ok" /\ writePermission = "true" /\ accountType = "User") =>
        permission \in {"admin", "write"}

\* ---- claims about the detectors
\* tok occurs in t from position i on
OccursAt(tok, t, i) ==
    /\ i + Len(tok) - 1 <= Len(t)
    /\ \A k \in 1..Len(tok) : t[i + k - 1] = tok[k]

\* tok occurs in t with start-of-string or whitespace before it and
\* end-of-string or a character of `after` behind it
Standalone(tok, t, after) ==
    \E i \in 1..(Len(t) + 1) :
        /\ OccursAt(tok, t, i)
        /\ (i = 1 \/ t[i - 1] \in WhiteSpace)
        /\ (i + Len(tok) = Len(t) + 1 \/ t[i + Len(tok)] \in after)

SpaceAndPunctuation == {" ", ".", ",", "!", "?", ";", ":"}
WhiteSpaceAndPunctuation == WhiteSpace \cup {".", ",", "!", "?", ";", ":"}
Mentioned(tok, t) == Standalone(tok, t, WhiteSpaceAndPunctuation)

\* C6 as stated: detectAIProvider returns a provider exactly when @augment
\* or @claude occurs after start or whitespace and before end or one of
\* space . , ! ? ; :
C6_SpaceOnly ==
    provider # Pending =>
        (provider # Null <=>
            \/ Standalone(AtAugment, text, SpaceAndPunctuation)
            \/ Standalone(AtClaude, text, SpaceAndPunctuation))

\* C6, amended: detectAIProvider returns a provider exactly when @augment or
\* @claude occurs after start or whitespace and before end, any whitespace
\* character or one of . , ! ? ; : and the provider returned is one that
\* occurs so; a token that is only part of a larger word gives null.
C6_StandaloneIff ==
    provider # Pending =>
        /\ provider \in {"augment", "claude", Null}
        /\ provider # Null <=>
               (Mentioned(AtAugment, text) \/ Mentioned(AtClaude, text))
        /\ provider = "augment" => Mentioned(AtAugment, text)
        /\ provider = "claude" => Mentioned(AtClaude, text)

\* @claude occurs, but only inside a larger word: null
C6_Witness ==
    /\ provider = Null
    /\ \E i \in 1..Len(text) : OccursAt(AtClaude, text, i)

\* C7: when a standalone @claude and a standalone @augment are both in the
\* text, detectAIProvider returns "augment".
C7_AugmentWins ==
    (provider # Pending /\ Mentioned(AtClaude, text) /\ Mentioned(AtAugment, text)) =>
        provider = "augment"

\* @claude comes first in the text and @augment is returned
C7_Witness ==
    /\ provider = "augment"
    /\ OccursAt(AtClaude, text, 1)
    /\ Mentioned(AtClaude, text)
    /\ Mentioned(AtAugment, text)

TriggerDone == triggerResult # NoResult
PromptEmpty == context.inputs.directPrompt = <<>>

\* C5: with a non-empty direct prompt the result is triggered with provider
\* "claude", whatever the event, the payload and the other inputs are.
C5_DirectPromptWins ==
    (TriggerDone /\ ~PromptEmpty) => triggerResult = Triggered("claude")

\* a comment that mentions @augment, with a direct prompt: "claude"
C5_Witness ==
    /\ TriggerDone
    /\ ~PromptEmpty
    /\ context.eventName = "issue_comment"
    /\ Mentioned(AtAugment, context.payload.body)
    /\ triggerResult = Triggered("claude")

\* the events whose text is scanned, as the specification lists them
TextEvent ==
    \/ context.eventName = "issues" /\ context.eventAction = "opened"
    \/ context.eventName = "pull_request"
    \/ context.eventName = "pull_request_review"
           /\ context.eventAction \in {"submitted", "edited"}
    \/ context.eventName \in {"issue_comment", "pull_request_review_comment"}

\* the text fields inspected for the event, a null field read as empty
InspectedFields ==
    IF context.eventName \in {"issues", "pull_request"}
    THEN {orEmpty(context.payload.body), orEmpty(context.payload.title)}
    ELSE {orEmpty(context.payload.body)}

NoProviderMention ==
    \A f \in InspectedFields : ~Mentioned(AtAugment, f) /\ ~Mentioned(AtClaude, f)

PhraseStandalone ==
    \E f \in InspectedFields : Mentioned(context.inputs.triggerPhrase, f)

\* C8: for a text event with empty direct prompt and no provider mention in
\* an inspected field, the result is triggered with "claude" exactly when the
\* trigger phrase occurs literally in an inspected field, after start or
\* whitespace and before end, whitespace or one of . , ! ? ; : and is
\* not-triggered otherwise.
C8_LiteralPhrase ==
    (TriggerDone /\ PromptEmpty /\ TextEvent /\ NoProviderMention) =>
        triggerResult = (IF PhraseStandalone THEN Triggered("claude") ELSE NotTriggered)

\* a phrase with a regex metacharacter triggers where it stands literally
C8_Witness ==
    /\ TriggerDone /\ PromptEmpty /\ TextEvent /\ NoProviderMention
    /\ context.inputs.triggerPhrase = <<"c", ".">>
    /\ triggerResult = Triggered("claude")

\* the assignee trigger without one leading "@"
OneAtStripped ==
    LET a == context.inputs.assigneeTrigger
    IN IF Len(a) >= 1 /\ a[1] = "@" THEN SubSeq(a, 2, Len(a)) ELSE a

AssignmentEvent == context.eventName = "issues" /\ context.eventAction = "assigned"

AssigneeRule ==
    /\ OneAtStripped # <<>>
    /\ context.payload.assignee # Undefined
    /\ context.payload.assignee = OneAtStripped

\* C9: with empty direct prompt an issue-assignment event is triggered
\* (provider "claude") exactly when the assignee trigger, one leading "@"
\* stripped, is non-empty and equals the assignee's login; otherwise it is
\* not triggered.
C9_AssigneeIff ==
    (TriggerDone /\ PromptEmpty /\ AssignmentEvent) =>
        triggerResult = (IF AssigneeRule THEN Triggered("claude") ELSE NotTriggered)

\* "@a" configured, issue assigned to "a"
C9_Witness ==
    /\ TriggerDone /\ PromptEmpty /\ AssignmentEvent
    /\ context.inputs.assigneeTrigger = <<"@", "a">>
    /\ context.payload.assignee = <<"a">>
    /\ triggerResult = Triggered("claude")

\* C10 as stated: with empty direct prompt every event outside the list of
\* scanned events is not triggered.
C10_OtherEventsNeverTrigger ==
    (TriggerDone /\ PromptEmpty /\ ~TextEvent) => triggerResult = NotTriggered

\* C10, amended: with empty direct prompt an event outside the list of
\* scanned events is not triggered, whatever its text holds, unless it is an
\* issue assignment whose assignee matches the assignee trigger.
C10_OtherEventsIgnoreText ==
    (TriggerDone /\ PromptEmpty /\ ~TextEvent) =>
        triggerResult =
            (IF AssignmentEvent /\ AssigneeRule THEN Triggered("claude") ELSE NotTriggered)

\* a dismissed review whose body mentions @claude is not triggered
C10_Witness ==
    /\ TriggerDone /\ PromptEmpty
    /\ context.eventName = "pull_request_review"
    /\ context.eventAction = "dismissed"
    /\ Mentioned(AtClaude, orEmpty(context.payload.body))
    /\ triggerResult = NotTriggered

\* the outputs of checkTriggerAction that carry the given name
OutputsNamed(name) ==
    {triggerAction.outputs[i].value :
        i \in {j \in DOMAIN triggerAction.outputs : triggerAction.outputs[j].name = name}}

\* C11: a result of checkContainsTrigger has containsTrigger true exactly
\* when it carries an aiProvider, which is "claude" or "augment"; and
\* checkTriggerAction writes contains_trigger once, writes ai_provider only
\* together with contains_trigger "true", and returns the boolean it wrote.
C11_WellFormedResult ==
    /\ TriggerDone =>
           /\ triggerResult.containsTrigger \in BOOLEAN
           /\ triggerResult.aiProvider \in {"claude", "augment", Null}
           /\ triggerResult.containsTrigger <=> triggerResult.aiProvider # Null
    /\ triggerAction.called =>
           /\ OutputsNamed("contains_trigger") \in {{"true"}, {"false"}}
           /\ OutputsNamed("ai_provider") # {} => OutputsNamed("contains_trigger") = {"true"}
           /\ OutputsNamed("ai_provider") \subseteq {"claude", "augment"}
           /\ triggerAction.returned <=> OutputsNamed("contains_trigger") = {"true"}

\* checkTriggerAction on a context without trigger: "false" and no ai_provider
C11_Witness ==
    /\ triggerAction.called
    /\ ~triggerAction.returned
    /\ OutputsNamed("contains_trigger") = {"false"}
    /\ OutputsNamed("ai_provider") = {}

BodyAndTitleEvent ==
    \/ context.eventName = "issues" /\ context.eventAction = "opened"
    \/ context.eventName = "pull_request"

\* the provider a text mentions: @augment before @claude
MentionsProvider(t) == Mentioned(AtAugment, t) \/ Mentioned(AtClaude, t)
ProviderMentioned(t) == IF Mentioned(AtAugment, t) THEN "augment" ELSE "claude"

\* C12: for issue-opened and pull-request events (empty direct prompt) a
\* provider mention in the body decides the provider whatever the title
\* holds; the title decides only when the body mentions no provider.
C12_BodyBeforeTitle ==
    (TriggerDone /\ PromptEmpty /\ BodyAndTitleEvent) =>
        LET body == orEmpty(context.payload.body)
            title == orEmpty(context.payload.title)
        IN /\ MentionsProvider(body) =>
                  triggerResult = Triggered(ProviderMentioned(body))
           /\ (~MentionsProvider(body) /\ MentionsProvider(title)) =>
                  triggerResult = Triggered(ProviderMentioned(title))

\* body "@claude ...", title "@augment": the result is "claude"
C12_Witness ==
    /\ TriggerDone /\ PromptEmpty /\ BodyAndTitleEvent
    /\ Mentioned(AtClaude, orEmpty(context.payload.body))
    /\ ~Mentioned(AtAugment, orEmpty(context.payload.body))
    /\ Mentioned(AtAugment, orEmpty(context.payload.title))
    /\ triggerResult = Triggered("claude")

\* ------------------------------------------------------------- dispatcher
Range(f) == {f[i] : i \in DOMAIN f}
DispatchEnded == pc = "exited"
\* run() reached getCliToolConfig
Resolved == pc # "start" /\ isSet(env.PROMPT_FILE) /\ promptFileExists
cliToolOf(e) == orElse(e.CLI_TOOL, "claude-cli")

\* C13: getCliToolConfig is a lookup over the four supported identifiers:
\* each of them yields a config with a command, arguments and an
\* environment overlay; any other identifier fails with an error that names
\* it and lists the four supported ones; an unset CLI_TOOL resolves
\* claude-cli.
C13_ClosedLookup ==
    Resolved =>
        /\ cliToolOf(env) \in Range(SupportedTools) =>
               /\ config # NoConfig
               /\ config.command # ""
               /\ config.args # <<>>
               /\ DOMAIN config.envSetup # {}
        /\ cliToolOf(env) \notin Range(SupportedTools) =>
               /\ config = NoConfig
               /\ cliToolOf(env) \in Range(thrown)
               /\ Range(SupportedTools) \subseteq Range(thrown)
        /\ ~isSet(env.CLI_TOOL) => cliToolOf(env) = "claude-cli"

\* the spawnSync call of installCliTool, and that of executeCliTool
isInstall(call) ==
    /\ config.installCommand # <<>>
    /\ call.command = config.installCommand[1]
    /\ call.args = Tail(config.installCommand)
isMain(call) == call.command = config.command /\ call.args = config.args
OutputOf(name) == {outputs[i].value : i \in {j \in DOMAIN outputs : outputs[j].name = name}}

\* C14: the main command is spawned only after the install step, and only
\* when the install ended with status 0; an install with another status is
\* the only spawn of the run, and the run ends failed.
C14_InstallBeforeMain ==
    /\ \A i \in DOMAIN spawned :
           isMain(spawned[i]) =>
               /\ i = 2
               /\ isInstall(spawned[1])
               /\ spawned[1].status = 0
    /\ (DispatchEnded /\ spawned # <<>> /\ spawned[1].status # 0) =>
           /\ Len(spawned) = 1
           /\ isInstall(spawned[1])
           /\ exitCode # 0
           /\ failures # <<>>
           /\ OutputOf("conclusion") = {"failure"}

\* the install ended with a non-zero status and the run is over
C14_Witness ==
    /\ DispatchEnded
    /\ Len(spawned) = 1
    /\ isInstall(spawned[1])
    /\ spawned[1].status = 1
    /\ exitCode = 1

\* executeCliTool has returned
Executed == conclusion # Pending
mainStatus == spawned[Len(spawned)].status

\* C15: the conclusion of executeCliTool is "success" exactly when the
\* status of the main command is 0; any other status, the null status of a
\* signal or a failed spawn included, gives "failure".
C15_SuccessIffZero ==
    Executed =>
        /\ spawned # <<>>
        /\ isMain(spawned[Len(spawned)])
        /\ conclusion \in {"success", "failure"}
        /\ conclusion = "success" <=> mainStatus = 0
        /\ mainStatus = NullStatus => conclusion = "failure"

\* the main command ended with a null status: "failure"
C15_Witness ==
    /\ Executed
    /\ isMain(spawned[Len(spawned)])
    /\ mainStatus = NullStatus
    /\ conclusion = "failure"

\* C16: when run() has ended, on any path, a file exists at the output path
\* and the execution_file output names that path; a file synthesized by
\* executeCliTool holds the command line, the exit status of the main
\* command, a timestamp, and the conclusion as its status.
C16_ArtifactAlways ==
    /\ DispatchEnded =>
           /\ outputFile.type # "absent"
           /\ OutputOf("execution_file") = {outputPath(env)}
    /\ Executed =>
           /\ outputFile.type \in {"result", "foreign"}
           /\ outputFile.type = "result" =>
                  /\ outputFile.status = conclusion
                  /\ outputFile.exit_code = mainStatus
                  /\ outputFile.command = Join(<<config.command>> \o config.args, " ")
                  /\ outputFile.timestamp = Now
    /\ (DispatchEnded /\ ~Executed) =>
           /\ outputFile.type = "error"
           /\ outputFile.error = thrown

\* the main command failed without writing a file: the synthesized file
\* records the failure
C16_Witness ==
    /\ DispatchEnded
    /\ Executed
    /\ outputFile.type = "result"
    /\ outputFile.status = "failure"
    /\ outputFile.exit_code = MaxExitStatus
    /\ OutputOf("execution_file") = {outputPath(env)}

\* the two ways run() signals its outcome
SignalsFailure ==
    /\ exitCode # 0
    /\ failures # <<>>
    /\ OutputOf("conclusion") = {"failure"}
SignalsSuccess ==
    /\ exitCode = 0
    /\ failures = <<>>
    /\ OutputOf("conclusion") = {"success"}
InstallFailed == spawned # <<>> /\ isInstall(spawned[1]) /\ spawned[1].status # 0

\* C17: a run that has ended signals failure (non-zero exit status, setFailed,
\* conclusion "failure") when the tool identifier is unsupported, when the
\* install failed, and when the main command ended with a status other than
\* 0; it signals success only when the main command ended with status 0.
C17_FailureSignalled ==
    DispatchEnded =>
        /\ cliToolOf(env) \notin Range(SupportedTools) => SignalsFailure
        /\ InstallFailed => SignalsFailure
        /\ (Executed /\ mainStatus # 0) => SignalsFailure
        /\ ~SignalsFailure => (SignalsSuccess /\ Executed /\ mainStatus = 0)

\* the main command ended with a non-zero status: failure is signalled
C17_Witness ==
    /\ DispatchEnded
    /\ Executed
    /\ mainStatus = 1
    /\ SignalsFailure

\* ------------------------------------------------- missing configuration
\* a variable that is not in the environment, or is empty
absent(v) == v \in {Unset, ""}
RequiredMissing ==
    \/ absent(entryEnv.GITHUB_TOKEN)
    \/ absent(entryEnv.AUGMENT_API_KEY)
    \/ absent(entryEnv.INSTRUCTION_FILE)
    \/ absent(entryEnv.CLAUDE_COMMENT_ID)
    \/ entryEnv.REPOSITORY \in {Undefined, <<>>}
PromptMissing == absent(env.PROMPT_FILE) \/ ~promptFileExists
EntryRuns == entryPc # "idle"
DispatchRuns == pc # "idle"
EntryEnded == entryPc = "exited"

\* C18: an entrypoint that misses one of GITHUB_TOKEN, AUGMENT_API_KEY,
\* INSTRUCTION_FILE, CLAUDE_COMMENT_ID and REPOSITORY, and a dispatcher whose
\* PROMPT_FILE is missing or names no file, never spawn a subprocess, go
\* nowhere but to their catch block, and end with exit status 1.
C18_MissingConfigTerminal ==
    /\ (EntryRuns /\ RequiredMissing) =>
           /\ entrySpawned = <<>>
           /\ entryPc \in {"start", "fatal", "exited"}
           /\ EntryEnded => entryExit = 1
    /\ (DispatchRuns /\ PromptMissing) =>
           /\ spawned = <<>>
           /\ pc \in {"start", "catch", "exited"}
           /\ DispatchEnded => exitCode = 1

\* the entrypoint ended without AUGMENT_API_KEY: status 1, nothing spawned
C18_Witness ==
    /\ EntryEnded
    /\ absent(entryEnv.AUGMENT_API_KEY)
    /\ ~absent(entryEnv.GITHUB_TOKEN)
    /\ entryExit = 1
    /\ entrySpawned = <<>>

\* ------------------------------------------------------ entrypoint failures
\* one of the three steps after the required variables failed
NodeCheckFailed ==
    /\ nodeResult.ran
    /\ \/ nodeResult.error # ""
       \/ nodeResult.stdout \in {<<"v", "1", "8", ".", "2", "0", ".", "4", "\n">>,
                                 <<"v", "9", ".", "1", "1", ".", "2", "\n">>}
SessionFailed == sessionResult \notin {Pending, "ok"}
CliFailed == cliResult.ran /\ cliResult.error # ""
CliSucceeded == cliResult.ran /\ cliResult.error = ""
StepFailed == NodeCheckFailed \/ SessionFailed \/ CliFailed

\* REPOSITORY reads owner/repo: a non-empty owner before the first "/" and a
\* non-empty name right after it
WellFormedRepository ==
    LET r == entryEnv.REPOSITORY
    IN \E k \in 2..(Len(r) - 1) :
           /\ r[k] = "/"
           /\ \A j \in 1..(k - 1) : r[j] # "/"
           /\ r[k + 1] # "/"

LastUpdate == commentUpdates[Len(commentUpdates)]
CompletedPosted ==
    \E i \in DOMAIN commentUpdates : commentUpdates[i].body[1] = CompletedHeader(variant)
ErrorReported ==
    /\ commentUpdates # <<>>
    /\ LastUpdate.body[1] \in ErrorStatuses(variant)
    /\ Len(LastUpdate.body) > 1

\* C19 as stated: with the required variables present, a failed Node.js
\* version check, session setup or CLI execution ends with an update of the
\* tracked comment carrying an error message and exit status 1, and the
\* "completed your request" comment is posted only after a successful CLI
\* execution.
C19_EveryFailureReported ==
    (EntryEnded /\ ~RequiredMissing) =>
        /\ StepFailed => (ErrorReported /\ entryExit = 1)
        /\ CompletedPosted => CliSucceeded

\* C19 amended: the update is attempted when REPOSITORY reads owner/repo,
\* and with any other REPOSITORY no update is made at all; the exit status
\* is 1 either way, and the "completed your request" comment is posted only
\* after a successful CLI execution.
C19_FailureReportAttempted ==
    (EntryEnded /\ ~RequiredMissing) =>
        /\ StepFailed => entryExit = 1
        /\ (StepFailed /\ WellFormedRepository) => ErrorReported
        /\ ~WellFormedRepository => commentUpdates = <<>>
        /\ CompletedPosted => (CliSucceeded /\ ~StepFailed /\ entryExit = 0)

\* the CLI execution timed out: the last update is the CLI error, status 1
C19_Witness ==
    /\ EntryEnded
    /\ ~RequiredMissing
    /\ WellFormedRepository
    /\ cliResult.error = "timeout"
    /\ LastUpdate.body[1] = CliErrorStatus(variant)
    /\ ~CompletedPosted
    /\ entryExit = 1

\* ---------------------------------------------------- best-effort operations
FailedUpdate == \E i \in DOMAIN commentUpdates : ~commentUpdates[i].ok
FailedDelete ==
    \E i \in DOMAIN branchCalls : branchCalls[i].api = "deleteRef" /\ ~branchCalls[i].ok

\* C20: no failure of a comment update escapes updateProgressComment (the
\* outer catch of run() is reached from the required variables only) and
\* the exit status of the entrypoint is the one the other steps decide,
\* whether the updates succeeded or not; no failure of deleteRef escapes
\* checkAndDeleteEmptyBranch, whose value is the one it returns when
\* deleteRef succeeds.
C20_BestEffortSwallowed ==
    /\ entryPc = "fatal" => RequiredMissing
    /\ EntryEnded => entryExit = (IF RequiredMissing \/ StepFailed THEN 1 ELSE 0)
    /\ branchPc = "returned" =>
           LET good == checkAndDeleteEmptyBranch(branchInput, TRUE)
           IN /\ ~branchResult.threw
              /\ branchResult.shouldDeleteBranch = good.shouldDeleteBranch
              /\ branchResult.branchLink = good.branchLink

\* every step succeeded, the final update failed: the exit status is 0
C20_Witness ==
    /\ EntryEnded
    /\ CompletedPosted
    /\ ~LastUpdate.ok
    /\ entryExit = 0

\* deleteRef failed and checkAndDeleteEmptyBranch returned all the same
DeleteFailedReturned ==
    /\ branchPc = "returned"
    /\ FailedDelete
    /\ branchResult.shouldDeleteBranch

\* ------------------------------------------------------ authorizer errors
UserLookups == {i \in DOMAIN apiCalls : apiCalls[i].api = "users.getByUsername"}
PermissionLookups ==
    {i \in DOMAIN apiCalls : apiCalls[i].api = "repos.getCollaboratorPermissionLevel"}

\* C21: when the user lookup fails, checkAllowedActor fails with the error
\* of the lookup and does not report the actor as authorized; the lookup is
\* made once, for the login of the actor.
C21_LookupFailurePropagates ==
    /\ (allowedActor # Pending /\ accountType = ApiFailure) =>
           /\ allowedActor = "error"
           /\ authThrown = <<ApiError.message>>
    /\ \A i \in UserLookups : apiCalls[i].username = actor
    /\ allowedActor # Pending => Cardinality(UserLookups) = 1

\* the lookup failed for an actor that is on the list: still an error
C21_Witness ==
    /\ allowedActor = "error"
    /\ accountType = ApiFailure
    /\ Listed
    /\ UserLookups # {}

\* C22: when the collaborator-permission lookup fails,
\* checkWritePermissions throws an error whose message names the actor; it
\* returns neither false nor true.
C22_PermissionFailureRaises ==
    (PermissionLookups # {} /\ permission = ApiFailure) =>
        /\ writePermission = "error"
        /\ authThrown[1] = "Failed to check permissions for "
        /\ authThrown[2] = actor
        /\ String(ApiError) \in Range(authThrown)

\* a human passed the first gate and the permission lookup failed
C22_Witness ==
    /\ allowedActor = "ok"
    /\ accountType = "User"
    /\ permission = ApiFailure
    /\ writePermission = "error"
    /\ PermissionLookups # {}

\* C23: the message of a rejection by checkAllowedActor names the login of
\* the actor and its account type, and it lists the allowed bots, joined by
\* ", ", exactly when allowedBotNames is not empty.
C23_RejectionMessage ==
    allowedActor = "unauthorized" =>
        /\ authThrown[1] = "Workflow initiated by unauthorized actor: "
        /\ authThrown[2] = actor
        /\ authThrown[4] = accountType
        /\ " Allowed bots: " \in Range(authThrown) <=> allowedBotNames # <<>>
        /\ allowedBotNames # <<>> =>
               /\ authThrown[Len(authThrown) - 1] = " Allowed bots: "
               /\ authThrown[Len(authThrown)] = Join(allowedBotNames, ", ")

\* a bot outside a list of two is rejected, and the two are listed
C23_Witness ==
    /\ allowedActor = "unauthorized"
    /\ accountType = "Bot"
    /\ Len(allowedBotNames) = 2
    /\ allowedBotNames[1] # allowedBotNames[2]
    /\ authThrown[Len(authThrown)] = allowedBotNames[1] \o ", " \o allowedBotNames[2]

\* ------------------------------------------------------------- no retries
InstallSpawns == {i \in DOMAIN spawned : isInstall(spawned[i])}
MainSpawns == {i \in DOMAIN spawned : isMain(spawned[i])}
CliSpawns == {i \in DOMAIN entrySpawned : "timeout" \in DOMAIN entrySpawned[i].options}
CallsOf(api) == {i \in DOMAIN branchCalls : branchCalls[i].api = api}

\* C24: in one invocation the install command and the tool command are
\* spawned at most once each, a spawn that failed is the last spawn of the
\* invocation, a failed comment update is not followed by an update with
\* the same body, and no API of the branch housekeeping is called twice.
C24_NoRetries ==
    /\ Cardinality(InstallSpawns) <= 1
    /\ Cardinality(MainSpawns) <= 1
    /\ \A i \in DOMAIN spawned : spawned[i].status # 0 => i = Len(spawned)
    /\ Cardinality(CliSpawns) <= 1
    /\ Len(entrySpawned) <= 2
    /\ (NodeCheckFailed \/ CliFailed) =>
           Len(entrySpawned) = (IF cliResult.ran THEN 2 ELSE 1)
    /\ \A i, j \in DOMAIN commentUpdates :
           (i < j /\ ~commentUpdates[i].ok) =>
               commentUpdates[j].body # commentUpdates[i].body
    /\ Cardinality(CallsOf("compareCommitsWithBasehead")) <= 1
    /\ Cardinality(CallsOf("deleteRef")) <= 1

\* the install failed with a null status and the run is over: one spawn
C24_Witness ==
    /\ DispatchEnded
    /\ Cardinality(InstallSpawns) = 1
    /\ spawned[1].status = NullStatus
    /\ Len(spawned) = 1

\* ----------------------------------------------------------- time bounds
\* timeout_minutes when the caller gives none
DefaultTimeoutMinutes == 30

\* C25: the spawn call of every tool invocation carries a timeout and an
\* output-buffer cap: the spawnSync of the dispatcher's main command has a
\* timeout option and a maxBuffer option, and the execAsync of the
\* entrypoint's CLI execution has a maxBuffer and a timeout equal to the
\* configured timeout (30 minutes when none is given).
C25_SpawnTimeBounded ==
    /\ \A i \in MainSpawns : {"timeout", "maxBuffer"} \subseteq spawned[i].options
    /\ \A i \in CliSpawns :
           /\ "maxBuffer" \in DOMAIN entrySpawned[i].options
           /\ entrySpawned[i].options.timeout = DefaultTimeoutMinutes * 60 * 1000

\* ------------------------------------------------------------ escapeRegExp
\* the characters the claim lists: . * + ? ^ $ { } ( ) | [ ] \
ListedCharacters ==
    {".", "*", "+", "?", "^", "$", "{", "}", "(", ")", "|", "[", "]", "\\"}
\* s occurs in t, character for character
Contains(t, s) ==
    \E p \in 0..(Len(t) - Len(s)) : SubSeq(t, p + 1, p + Len(s)) = s
\* where character i of the argument stands in the result
PlaceOf(i) == i + Cardinality({j \in 1..i : escString[j] \in ListedCharacters})
Escaped == escPc = "done"

\* C26: the expression built from escapeRegExp(s) matches a text exactly
\* when the text contains s literally; in the result each listed character
\* of s stands behind one added backslash and every other character stands
\* as it is, with nothing else added.
C26_EscapeRoundTrip ==
    Escaped =>
        /\ escMatched <=> Contains(escText, escString)
        /\ Len(escResult) = PlaceOf(Len(escString))
        /\ \A i \in DOMAIN escString :
               /\ escResult[PlaceOf(i)] = escString[i]
               /\ escString[i] \in ListedCharacters => escResult[PlaceOf(i) - 1] = "\\"
               /\ escString[i] \notin ListedCharacters =>
                      PlaceOf(i) = 1 + (IF i = 1 THEN 0 ELSE PlaceOf(i - 1))

\* ".$" is escaped to "\.\$" and does not match the text "a$"
C26_Witness ==
    /\ Escaped
    /\ escString = <<".", "$">>
    /\ escResult = <<"\\", ".", "\\", "$">>
    /\ escText = <<"a", "$">>
    /\ ~escMatched

\* ---- C27 ----
\* the text holds the value of the GitHub API token
HoldsToken(parts) == entryEnv.GITHUB_TOKEN \in Range(parts)

\* the execution of the CLI ended, in whichever way
CliEnded == cliResult.ran

\* C27: the GitHub API token placed on the command line never reaches an
\* observable output: whatever the outcome of the CLI execution (success,
\* non-zero exit, timeout), no console line and no comment body sent to
\* GitHub holds the value of the token.
C27_TokenNeverObservable ==
    (isSet(entryEnv.GITHUB_TOKEN) /\ CliEnded) =>
        /\ \A i \in DOMAIN entryLog : ~HoldsToken(entryLog[i])
        /\ \A i \in DOMAIN commentUpdates : ~HoldsToken(commentUpdates[i].body)

\* the part of C27 that holds: the line printed before the execution shows
\* the command with the token redacted
C27_CommandLineRedacted ==
    CliEnded => /\ ~HoldsToken(entryLog[1])
                /\ "[REDACTED]" \in Range(entryLog[1])

\* the token in the body of the error comment after a CLI that failed
C27_TokenInComment ==
    /\ CliEnded /\ cliResult.error \in {"exit", "timeout"}
    /\ \E i \in DOMAIN commentUpdates : HoldsToken(commentUpdates[i].body)

\* ---- C28 ----
BranchReturned == branchPc = "returned"
BranchGiven == isSet(branchInput.claudeBranch)
DeleteRefCalled == \E i \in DOMAIN branchCalls : branchCalls[i].api = "deleteRef"
\* the branch is gone: a deleteRef call went through
BranchDeleted ==
    \E i \in DOMAIN branchCalls : branchCalls[i].api = "deleteRef" /\ branchCalls[i].ok
EmptyComparison == branchInput.comparison.ok /\ branchInput.comparison.total_commits = 0
\* the branch has commits, or the comparison failed
KeptByComparison == ~branchInput.comparison.ok \/ branchInput.comparison.total_commits > 0
ViewBranchLink ==
    <<"\n[View branch](", branchInput.serverUrl, "/", branchInput.owner, "/",
      branchInput.repo, "/tree/", branchInput.claudeBranch, ")">>

\* C28 as stated: checkAndDeleteEmptyBranch calls deleteRef only when a
\* branch name is given, the comparison succeeded with total_commits equal to
\* 0 and AUGMENT_API_KEY is unset; a branch with a commit, or whose
\* comparison failed, is never deleted; shouldDeleteBranch true implies an
\* empty branchLink, and a non-deleted existing branch always gets a link.
C28_DeleteOnlyEmptyNonAugment ==
    BranchReturned =>
        /\ DeleteRefCalled =>
               BranchGiven /\ EmptyComparison /\ branchInput.augmentApiKey = Unset
        /\ KeptByComparison => ~DeleteRefCalled
        /\ branchResult.shouldDeleteBranch => branchResult.branchLink = <<>>
        /\ (BranchGiven /\ ~BranchDeleted) => branchResult.branchLink # <<>>

\* C28, amended: deleteRef is called exactly for a given branch whose
\* comparison succeeded with total_commits equal to 0 while AUGMENT_API_KEY is
\* unset or empty; a branch with a commit, or whose comparison failed, is
\* never deleted; shouldDeleteBranch true implies an empty branchLink, and a
\* given branch with shouldDeleteBranch false gets its link; a branch whose
\* deleteRef call failed is still there, reported with shouldDeleteBranch
\* true and no link.
C28_DeleteOnlyEmptyFalsyKey ==
    BranchReturned =>
        /\ DeleteRefCalled <=>
               (BranchGiven /\ EmptyComparison /\ ~isSet(branchInput.augmentApiKey))
        /\ KeptByComparison => ~DeleteRefCalled
        /\ branchResult.shouldDeleteBranch <=> DeleteRefCalled
        /\ branchResult.shouldDeleteBranch => branchResult.branchLink = <<>>
        /\ (BranchGiven /\ ~branchResult.shouldDeleteBranch) =>
               branchResult.branchLink = ViewBranchLink
        /\ ~branchResult.threw

\* the deletion of an empty branch failed and the call returned all the same
C28_Witness ==
    /\ DeleteFailedReturned
    /\ BranchGiven /\ ~BranchDeleted
    /\ branchResult.branchLink = <<>>

\* ---- C29 ----
\* the configured trigger phrase is neither provider token
OtherPhrase == context.inputs.triggerPhrase \notin {AtClaude, AtAugment}

\* C29: for issue-opened and pull-request events (empty direct prompt) the
\* provider mentions of body and title are looked for before the trigger
\* phrase in either field: a body with the trigger phrase and a title that
\* alone mentions @augment give "augment", not "claude"; a standalone @claude
\* or @augment in either field triggers with that provider whatever the
\* configured trigger phrase is, present or not.
C29_MentionBeforePhrase ==
    (TriggerDone /\ PromptEmpty /\ BodyAndTitleEvent) =>
        LET body == orEmpty(context.payload.body)
            title == orEmpty(context.payload.title)
            phrase == context.inputs.triggerPhrase
        IN /\ (Mentioned(phrase, body) /\ ~MentionsProvider(body)
                 /\ Mentioned(AtAugment, title)) =>
                  triggerResult = Triggered("augment")
           /\ \A p \in {AtClaude, AtAugment} :
                  (Mentioned(p, body) \/ Mentioned(p, title)) =>
                      /\ triggerResult.containsTrigger
                      /\ triggerResult.aiProvider \in {"claude", "augment"}
                      /\ (~MentionsProvider(body) \/ ~MentionsProvider(title)) =>
                             triggerResult.aiProvider =
                                 (IF MentionsProvider(body) THEN ProviderMentioned(body)
                                  ELSE ProviderMentioned(title))

\* the trigger phrase "c." stands in the body, @augment in the title only:
\* the result is "augment"
C29_Witness ==
    /\ TriggerDone /\ PromptEmpty /\ BodyAndTitleEvent
    /\ OtherPhrase /\ context.inputs.triggerPhrase # <<>>
    /\ Mentioned(context.inputs.triggerPhrase, orEmpty(context.payload.body))
    /\ ~MentionsProvider(orEmpty(context.payload.body))
    /\ Mentioned(AtAugment, orEmpty(context.payload.title))
    /\ triggerResult = Triggered("augment")

\* ---- C30 ----
\* no inspected field holds a character that is not white space
NoToken == \A f \in InspectedFields : Range(f) \subseteq WhiteSpace

\* C30: with empty direct prompt and no assignee match, the result is
\* not-triggered whenever no inspected text field holds a non-whitespace
\* token (every inspected field empty, for one), for every configured
\* trigger phrase, the empty one included.
C30_NoTokenNoTrigger ==
    (TriggerDone /\ PromptEmpty /\ ~(AssignmentEvent /\ AssigneeRule) /\ NoToken) =>
        triggerResult = NotTriggered

\* the part of C30 that holds: a trigger phrase with a character in it
C30_NoTokenNoTriggerPhraseGiven ==
    (TriggerDone /\ PromptEmpty /\ ~(AssignmentEvent /\ AssigneeRule) /\ NoToken
        /\ context.inputs.triggerPhrase # <<>>) =>
        triggerResult = NotTriggered

\* an issue opened with empty body and title triggers under the empty phrase
C30_EmptyPhraseTriggers ==
    /\ TriggerDone /\ PromptEmpty
    /\ context.eventName = "issues" /\ context.eventAction = "opened"
    /\ context.inputs.triggerPhrase = <<>>
    /\ InspectedFields = {<<>>}
    /\ triggerResult = Triggered("claude")

====
